---- MODULE Spec2Model ----
(***************************************************************************)
(* Model of ProjectManagement/update_architecture_docs.py: the scan /      *)
(* diff / store / violation pipeline over the SQLite tables files,         *)
(* file_history, scan_runs, violations and scan_statistics.                *)
(*                                                                         *)
(* Strings of the program are TLA+ strings.  A substring test of the       *)
(* program ("X in path_str") is computed over the tokenisation of the      *)
(* string given by Segments: a path is a sequence of segments (split at    *)
(* "/"), a segment a sequence of CamelCase tokens.                         *)
(***************************************************************************)
EXTENDS Integers, Sequences, FiniteSets, TLC

VARIABLES
    disk,             \* the Swift source tree as the last scan found it
    files,            \* table files, row id = index
    file_history,     \* table file_history, in insertion order
    scan_runs,        \* table scan_runs, row id = index
    violations,       \* table violations, in insertion order
    scan_statistics,  \* table scan_statistics, in insertion order
    clock,            \* datetime.now(), a logical clock
    pc,               \* position of main() / migrate_from_csv()
    args,             \* the parsed command line flags of the invocation
    loc,              \* the locals of main() / migrate_from_csv()
    initialized       \* whether schema.sql has been run on the database

vars == <<disk, files, file_history, scan_runs, violations, scan_statistics,
          clock, pc, args, loc, initialized>>

dbvars == <<files, file_history, scan_runs, violations, scan_statistics>>

-----------------------------------------------------------------------------
(* Bounds of the model *)

\* scans of the tree over the life of the store
MaxScans == 3

\* scans of the tree when violations are also resolved from outside
MaxScansExt == 2

\* violations resolved from outside over the life of the store
MaxResolved == 1

\* the scans of a behaviour in which store writes may fail
MaxScansFail == 2

\* the store-write failures of a behaviour
MaxFailures == 1

\* the scans of a behaviour over the wider set of trees
MaxScansWide == 2

\* the scans of a behaviour over the trees of three files
MaxScansABC == 2

-----------------------------------------------------------------------------
(* Program constants *)

SIMPLE_THRESHOLD == 150

MEDIUM_THRESHOLD == 400

\* SQL NULL / Python None in a text column
Null == "<NULL>"

\* SQL NULL in an integer column
NullInt == -1

Absent == "<absent>"

-----------------------------------------------------------------------------
(* The source tree the scans run over *)

PathRepo == "swift/Sources/Services/Repositories/GoalRepository.swift"

PathVM == "swift/Sources/App/ViewModels/FormViewModels/ActionFormViewModel.swift"

PathViewA == "swift/Sources/App/Views/ListViews/GoalListView.swift"

PathModelC == "swift/Sources/Models/Basics/Goal.swift"

\* a path the legacy CSV names; a file is at it in some trees only
PathCoord == "swift/Sources/Services/Coordinators/GoalCoordinator.swift"

\* a form view model whose file name begins with "Database"
PathDbVM == "swift/Sources/App/ViewModels/FormViewModels/DatabaseFormViewModel.swift"

\* a view model in a directory "Basics" of the view models
PathVMBasics == "swift/Sources/App/ViewModels/Basics/BasicsViewModel.swift"

Paths == {PathRepo, PathVM, PathViewA, PathCoord, PathModelC, PathDbVM, PathVMBasics}

\* paths only the legacy CSV names; no such file is in a tree
PathService == "swift/Sources/Services/Progress/ProgressService.swift"

PathListVM == "swift/Sources/App/ViewModels/ListViewModels/GoalListViewModel.swift"

PathCoreRepo == "swift/Sources/Core/Repositories/BaseStore.swift"

\* str(relative_path) split at "/" and at CamelCase boundaries; the last
\* segment is the file stem (the extension ".swift" holds no fragment)
Segments(path) ==
    CASE path = PathRepo ->
           << <<"swift">>, <<"Sources">>, <<"Services">>, <<"Repositories">>,
              <<"Goal", "Repository">> >>
      [] path = PathVM ->
           << <<"swift">>, <<"Sources">>, <<"App">>, <<"View", "Models">>,
              <<"Form", "View", "Models">>, <<"Action", "Form", "View", "Model">> >>
      [] path = PathCoord ->
           << <<"swift">>, <<"Sources">>, <<"Services">>, <<"Coordinators">>,
              <<"Goal", "Coordinator">> >>
      [] path = PathViewA ->
           << <<"swift">>, <<"Sources">>, <<"App">>, <<"Views">>,
              <<"List", "Views">>, <<"Goal", "List", "View">> >>
      [] path = PathModelC ->
           << <<"swift">>, <<"Sources">>, <<"Models">>, <<"Basics">>, <<"Goal">> >>
      [] path = PathDbVM ->
           << <<"swift">>, <<"Sources">>, <<"App">>, <<"View", "Models">>,
              <<"Form", "View", "Models">>, <<"Database", "Form", "View", "Model">> >>
      [] path = PathVMBasics ->
           << <<"swift">>, <<"Sources">>, <<"App">>, <<"View", "Models">>,
              <<"Basics">>, <<"Basics", "View", "Model">> >>
      [] path = PathService ->
           << <<"swift">>, <<"Sources">>, <<"Services">>, <<"Progress">>,
              <<"Progress", "Service">> >>
      [] path = PathListVM ->
           << <<"swift">>, <<"Sources">>, <<"App">>, <<"View", "Models">>,
              <<"List", "View", "Models">>, <<"Goal", "List", "View", "Model">> >>
      [] path = PathCoreRepo ->
           << <<"swift">>, <<"Sources">>, <<"Core">>, <<"Repositories">>,
              <<"Base", "Store">> >>
      [] OTHER -> << >>

\* File contents.  A content is known by the features the extractor reads:
\* its non-blank and blank line counts, the markers that occur in it, the
\* text after "// PURPOSE:" and after the first "/// ", the type argument of
\* the first "BaseRepository<...>", the inheritance clauses of its
\* declarations, its import statements, and the stat() size and mtime.
Contents ==
    {"plain50", "safe200", "big500", "notutf8", "tie200", "empty0", "coord200",
     "n149", "n150", "n151", "n399", "n400", "n401"}

\* the non-blank lines of the contents around the two thresholds
ThresholdLines(c) ==
    CASE c = "n149" -> 149
      [] c = "n150" -> 150
      [] c = "n151" -> 151
      [] c = "n399" -> 399
      [] c = "n400" -> 400
      [] c = "n401" -> 401
      [] OTHER -> 0

\* the contents a file of the tree takes over time
Versions(path) ==
    IF path = PathRepo THEN {"plain50", "safe200", "notutf8"}
    ELSE IF path = PathVM THEN {"big500"}
    ELSE {}

\* open(file_path, 'r', encoding='utf-8').read() raises UnicodeDecodeError
Unreadable(c) == c = "notutf8"

Text(c) ==
    CASE c = "plain50" ->
           [nonblank |-> 50, blank |-> 7, markers |-> {},
            purpose |-> Null, doc |-> Null, generic |-> Null,
            inherits |-> << >>, imports |-> << >>, bytes |-> 1200, mtime |-> 11]
      [] c = "safe200" ->
           [nonblank |-> 200, blank |-> 0,
            markers |-> {": Sendable", "@MainActor", "BaseRepository", "@Observable"},
            purpose |-> "Persist goals", doc |-> "Goal store", generic |-> "Goal",
            inherits |-> <<"BaseRepository<Goal>, Sendable">>,
            imports |-> <<"SQLiteData", "Foundation", "Dependencies", "SQLiteData">>,
            bytes |-> 6100, mtime |-> 12]
      [] c = "big500" ->
           [nonblank |-> 500, blank |-> 40, markers |-> {"@unchecked Sendable"},
            purpose |-> Null, doc |-> "Form state", generic |-> Null,
            inherits |-> <<"ObservableObject">>, imports |-> <<"SwiftUI">>,
            bytes |-> 19000, mtime |-> 13]
      [] c = "tie200" ->
           [nonblank |-> 200, blank |-> 12, markers |-> {"@MainActor"},
            purpose |-> Null, doc |-> Null, generic |-> Null,
            inherits |-> << >>, imports |-> << >>, bytes |-> 5200, mtime |-> 14]
      [] c = "coord200" ->
           [nonblank |-> 200, blank |-> 20, markers |-> {"Coordinator"},
            purpose |-> Null, doc |-> "Coordinates goals", generic |-> Null,
            inherits |-> << >>, imports |-> <<"Foundation">>,
            bytes |-> 5800, mtime |-> 16]
      [] c = "empty0" ->
           [nonblank |-> 0, blank |-> 3, markers |-> {},
            purpose |-> Null, doc |-> Null, generic |-> Null,
            inherits |-> << >>, imports |-> << >>, bytes |-> 3, mtime |-> 15]
      [] c \in {"n149", "n150", "n151", "n399", "n400", "n401"} ->
           [nonblank |-> ThresholdLines(c), blank |-> 2, markers |-> {},
            purpose |-> Null, doc |-> Null, generic |-> Null,
            inherits |-> << >>, imports |-> << >>, bytes |-> 9000, mtime |-> 17]
      [] OTHER ->
           [nonblank |-> 0, blank |-> 0, markers |-> {},
            purpose |-> Null, doc |-> Null, generic |-> Null,
            inherits |-> << >>, imports |-> << >>, bytes |-> 0, mtime |-> 0]

-----------------------------------------------------------------------------
(* String helpers *)

IsPrefixOf(s, t) == Len(s) <= Len(t) /\ SubSeq(t, 1, Len(s)) = s

IsSuffixOf(s, t) == Len(s) <= Len(t) /\ SubSeq(t, Len(t) - Len(s) + 1, Len(t)) = s

IsInfixOf(s, t) ==
    \E i \in 0..(Len(t) - Len(s)) : SubSeq(t, i + 1, i + Len(s)) = s

\* "frag in path_str", frag a sequence of segments: the first segment of the
\* fragment ends a segment of the path, the last begins one, the ones between
\* are whole segments; a fragment without "/" lies inside one segment
FragmentIn(frag, path) ==
    LET segs == Segments(path)
        n == Len(frag)
    IN  IF n = 1
        THEN \E i \in 1..Len(segs) : IsInfixOf(frag[1], segs[i])
        ELSE \E i \in 1..(Len(segs) - n + 1) :
               /\ IsSuffixOf(frag[1], segs[i])
               /\ IsPrefixOf(frag[n], segs[i + n - 1])
               /\ \A k \in 2..(n - 1) : frag[k] = segs[i + k - 1]

RECURSIVE JoinComma(_)
\* ', '.join(seq)
JoinComma(seq) ==
    IF seq = << >> THEN ""
    ELSE IF Len(seq) = 1 THEN seq[1]
    ELSE seq[1] \o ", " \o JoinComma(Tail(seq))

-----------------------------------------------------------------------------
(* SwiftFileScanner: the metadata extractor *)

\* hashlib.sha256(content.encode()).hexdigest(): one digest per content,
\* different contents have different digests, and no digest is ''
Sha256(c) == "sha256:" \o c

\* len([l for l in lines if l.strip()]): blank lines are not counted
NonBlankLineCount(c) == Text(c).nonblank

\* thresholds that belong to the lower bucket
Complexity_Inclusive(line_count) ==
    IF line_count <= SIMPLE_THRESHOLD THEN "Simple"
    ELSE IF line_count <= MEDIUM_THRESHOLD THEN "Medium"
    ELSE "Complex"

Complexity(line_count) ==
    IF line_count < SIMPLE_THRESHOLD THEN "Simple"
    ELSE IF line_count < MEDIUM_THRESHOLD THEN "Medium"
    ELSE "Complex"

ExtractPurpose(c) ==
    IF Text(c).purpose # Null THEN Text(c).purpose
    ELSE IF Text(c).doc # Null THEN Text(c).doc
    ELSE Null

\* the if/elif chain of _determine_layer, in its order
LayerRules ==
    << << << <<"Models">>, <<"Abstractions">> >>, "Model-Abstraction" >>,
       << << <<"Models">>, <<"Basics">> >>, "Model-Basic" >>,
       << << <<"Models">>, <<"Composits">> >>, "Model-Composit" >>,
       << << <<"Models">>, <<"Data", "Types">> >>, "Model-DataType" >>,
       << << <<"Models">>, <<"Semantic", "Types">> >>, "Model-Semantic" >>,
       << << <<"Models">>, <<"Deduplication">> >>, "Model-Deduplication" >>,
       << << <<"Database">> >>, "Database" >>,
       << << <<"Repositories">>, <<"Core">> >>, "Repository-Core" >>,
       << << <<"Repositories">> >>, "Repository" >>,
       << << <<"Coordinators">>, <<"Form", "Data">> >>, "Coordinator-FormData" >>,
       << << <<"Coordinators">> >>, "Coordinator" >>,
       << << <<"Services">>, <<"Progress">> >>, "Service-Progress" >>,
       << << <<"Services">>, <<"Validation">> >>, "Service-Validation" >>,
       << << <<"Services">>, <<"Embedding">> >>, "Service-Embedding" >>,
       << << <<"Services">>, <<"Semantic">> >>, "Service-Semantic" >>,
       << << <<"Services">>, <<"Deduplication">> >>, "Service-Deduplication" >>,
       << << <<"Services">>, <<"Health", "Kit">> >>, "Service-HealthKit" >>,
       << << <<"Services">>, <<"Foundation", "Models">> >>, "Service-FoundationModels" >>,
       << << <<"Services">>, <<"Import", "Export">> >>, "Service-ImportExport" >>,
       << << <<"Services">> >>, "Service-Other" >>,
       << << <<"View", "Models">>, <<"Form", "View", "Models">> >>, "ViewModel-Form" >>,
       << << <<"View", "Models">>, <<"List", "View", "Models">> >>, "ViewModel-List" >>,
       << << <<"View", "Models">>, <<"LLM", "View", "Models">> >>, "ViewModel-LLM" >>,
       << << <<"View", "Models">> >>, "ViewModel-Utility" >>,
       << << <<"Views">>, <<"List", "Views">> >>, "View-List" >>,
       << << <<"Views">>, <<"Form", "Views">> >>, "View-Form" >>,
       << << <<"Views">>, <<"Row", "Views">> >>, "View-Row" >>,
       << << <<"Views">>, <<"Components">> >>, "View-Component" >>,
       << << <<"Views">>, <<"Dashboard">> >>, "View-Dashboard" >>,
       << << <<"Views">>, <<"Debug">> >>, "View-Debug" >>,
       << << <<"Views">>, <<"Analytics">> >>, "View-Analytics" >>,
       << << <<"Views">>, <<"Health">> >>, "View-Health" >>,
       << << <<"Views">>, <<"LLM">> >>, "View-LLM" >>,
       << << <<"Views">>, <<"CSV">> >>, "View-CSV" >>,
       << << <<"Views">>, <<"Templates">> >>, "View-Template" >> >>

RECURSIVE FirstMatch(_, _, _)
\* first rule of rules[i..] whose fragment occurs in the path, else dflt
FirstMatch(rules, path, dflt) ==
    IF rules = << >> THEN dflt
    ELSE IF FragmentIn(rules[1][1], path) THEN rules[1][2]
    ELSE FirstMatch(Tail(rules), path, dflt)

DetermineLayer(path) == FirstMatch(LayerRules, path, "Unknown")

\* str.lower() of a token
Lower(tok) ==
    CASE tok = "Goal" -> "goal"
      [] tok = "Repository" -> "repository"
      [] tok = "Action" -> "action"
      [] tok = "Form" -> "form"
      [] tok = "View" -> "view"
      [] tok = "Model" -> "model"
      [] tok = "List" -> "list"
      [] tok = "Coordinator" -> "coordinator"
      [] tok = "Database" -> "database"
      [] tok = "Basics" -> "basics"
      [] OTHER -> tok

\* relative_path.stem.lower(), as tokens
LowerStem(path) ==
    LET segs == Segments(path)
        stem == segs[Len(segs)]
    IN  [i \in 1..Len(stem) |-> Lower(stem[i])]

\* the if/elif chain of _determine_domain_entity, in its order
DomainRules ==
    << << <<"goal">>, "Goal" >>,
       << <<"action">>, "Action" >>,
       << <<"personal", "value">>, "PersonalValue" >>,
       << <<"value">>, "PersonalValue" >>,
       << <<"measure">>, "Measure" >>,
       << <<"time", "period">>, "TimePeriod" >>,
       << <<"term">>, "TimePeriod" >>,
       << <<"milestone">>, "Milestone" >>,
       << <<"obligation">>, "Obligation" >>,
       << <<"expectation">>, "Expectation" >>,
       << <<"embedding">>, "Semantic" >>,
       << <<"semantic">>, "Semantic" >>,
       << <<"health">>, "HealthKit" >>,
       << <<"llm">>, "LLM" >>,
       << <<"coach">>, "LLM" >>,
       << <<"foundation", "models">>, "LLM" >> >>

RECURSIVE FirstStemMatch(_, _)
FirstStemMatch(rules, stem) ==
    IF rules = << >> THEN "Cross-cutting"
    ELSE IF IsInfixOf(rules[1][1], stem) THEN rules[1][2]
    ELSE FirstStemMatch(Tail(rules), stem)

DetermineDomainEntity(path) == FirstStemMatch(DomainRules, LowerStem(path))

ExtractKeyPattern(c) ==
    LET m == Text(c).markers
    IN  IF "BaseRepository" \in m
        THEN IF Text(c).generic # Null
             THEN "BaseRepository<" \o Text(c).generic \o ">"
             ELSE "BaseRepository"
        ELSE IF "@Observable" \in m
        THEN IF "@MainActor" \in m THEN "@Observable @MainActor" ELSE "@Observable"
        ELSE IF "@Table" \in m THEN "@Table"
        ELSE IF ": View" \in m THEN "SwiftUI View"
        ELSE IF "Coordinator" \in m /\ ": Sendable" \in m THEN "Sendable Coordinator"
        ELSE Null

DetectConcurrency(c) ==
    LET m == Text(c).markers
        has_sendable == ": Sendable" \in m \/ "@unchecked Sendable" \in m
        has_mainactor == "@MainActor" \in m
    IN  IF has_sendable /\ has_mainactor THEN "Sendable + @MainActor"
        ELSE IF "@unchecked Sendable" \in m THEN "@unchecked Sendable"
        ELSE IF has_sendable THEN "Sendable"
        ELSE IF has_mainactor THEN "@MainActor"
        ELSE "None"

ExtractInheritance(c) ==
    IF Text(c).inherits # << >> THEN JoinComma(Text(c).inherits) ELSE Null

\* the module names of the model in sorted() order
ModuleOrder == <<"Dependencies", "Foundation", "SQLiteData", "SwiftUI">>

ExtractDependencies(c) ==
    LET imports == SelectSeq(Text(c).imports,
                             LAMBDA mod : mod \notin {"Foundation", "SwiftUI"})
        asSet == {imports[i] : i \in 1..Len(imports)}
        sorted == SelectSeq(ModuleOrder, LAMBDA mod : mod \in asSet)
    IN  IF imports # << >> THEN JoinComma(sorted) ELSE Null

\* analyze_file: the metadata dict of one file
AnalyzeFile(path, c) ==
    LET line_count == NonBlankLineCount(c)
    IN  [file_path |-> path,
         layer |-> DetermineLayer(path),
         domain_entity |-> DetermineDomainEntity(path),
         file_purpose |-> ExtractPurpose(c),
         key_pattern |-> ExtractKeyPattern(c),
         dependencies |-> ExtractDependencies(c),
         extends_conforms |-> ExtractInheritance(c),
         concurrency |-> DetectConcurrency(c),
         complexity |-> Complexity(line_count),
         notes |-> "",
         file_size_bytes |-> Text(c).bytes,
         line_count |-> line_count,
         last_modified |-> Text(c).mtime,
         file_hash |-> Sha256(c)]

-----------------------------------------------------------------------------
(* ArchitectureDB: the store *)

\* the default of the counter columns of table scan_runs
ScanRunCounterDefault == 0

\* start_scan_run: INSERT INTO scan_runs; the counters the INSERT does not
\* name take the column default, the end time and duration are NULL
StartScanRun(runs, now) ==
    Append(runs, [id |-> Len(runs) + 1,
                  started_at |-> now,
                  completed_at |-> NullInt,
                  duration_seconds |-> NullInt,
                  files_scanned |-> ScanRunCounterDefault,
                  files_created |-> ScanRunCounterDefault,
                  files_modified |-> ScanRunCounterDefault,
                  files_deleted |-> ScanRunCounterDefault,
                  errors_encountered |-> ScanRunCounterDefault])

\* an UPDATE scan_runs without its WHERE clause
CompleteScanRun_EveryRow(runs, now, run_id, stats) ==
    [i \in 1..Len(runs) |->
        [runs[i] EXCEPT !.completed_at = now,
                        !.duration_seconds = now - runs[run_id].started_at,
                        !.files_scanned = stats.scanned,
                        !.files_created = stats.created,
                        !.files_modified = stats.modified,
                        !.files_deleted = stats.deleted,
                        !.errors_encountered = stats.errors]]

\* complete_scan_run: UPDATE scan_runs ... WHERE id = run_id
CompleteScanRun(runs, now, run_id, stats) ==
    [i \in 1..Len(runs) |->
        IF runs[i].id = run_id
        THEN [runs[i] EXCEPT !.completed_at = now,
                             !.duration_seconds = now - runs[run_id].started_at,
                             !.files_scanned = stats.scanned,
                             !.files_created = stats.created,
                             !.files_modified = stats.modified,
                             !.files_deleted = stats.deleted,
                             !.errors_encountered = stats.errors]
        ELSE runs[i]]

\* a lookup that skips the rows flagged deleted
GetFileByPath_ActiveOnly(fs, file_path) ==
    LET hits == {i \in 1..Len(fs) : fs[i].file_path = file_path /\ fs[i].is_deleted = 0}
    IN  IF hits = {} THEN 0 ELSE CHOOSE i \in hits : \A j \in hits : i <= j

\* get_file_by_path: SELECT * FROM files WHERE file_path = ?, fetchone();
\* 0 stands for None
GetFileByPath(fs, file_path) ==
    LET hits == {i \in 1..Len(fs) : fs[i].file_path = file_path}
    IN  IF hits = {} THEN 0 ELSE CHOOSE i \in hits : \A j \in hits : i <= j

NoValues == << >>

\* the INSERT INTO files of upsert_file; is_deleted and deleted_at take
\* their column defaults
NewFileRow(fs, now, file_data) ==
    [id |-> Len(fs) + 1,
     file_path |-> file_data.file_path,
     layer |-> file_data.layer,
     domain_entity |-> file_data.domain_entity,
     file_purpose |-> file_data.file_purpose,
     key_pattern |-> file_data.key_pattern,
     dependencies |-> file_data.dependencies,
     extends_conforms |-> file_data.extends_conforms,
     concurrency |-> file_data.concurrency,
     complexity |-> file_data.complexity,
     notes |-> file_data.notes,
     file_size_bytes |-> file_data.file_size_bytes,
     line_count |-> file_data.line_count,
     last_modified |-> file_data.last_modified,
     file_hash |-> file_data.file_hash,
     first_seen |-> now,
     last_scanned |-> now,
     is_deleted |-> 0,
     deleted_at |-> NullInt]

\* an UPDATE that leaves the concurrency column out
UpdatedFileRow_NoConcurrency(row, now, file_data) ==
    [row EXCEPT !.layer = file_data.layer,
                !.domain_entity = file_data.domain_entity,
                !.file_purpose = file_data.file_purpose,
                !.key_pattern = file_data.key_pattern,
                !.dependencies = file_data.dependencies,
                !.extends_conforms = file_data.extends_conforms,
                !.complexity = file_data.complexity,
                !.notes = file_data.notes,
                !.file_size_bytes = file_data.file_size_bytes,
                !.line_count = file_data.line_count,
                !.last_modified = file_data.last_modified,
                !.file_hash = file_data.file_hash,
                !.last_scanned = now]

\* the UPDATE files SET ... WHERE id = file_id of the modified branch
UpdatedFileRow(row, now, file_data) ==
    [row EXCEPT !.layer = file_data.layer,
                !.domain_entity = file_data.domain_entity,
                !.file_purpose = file_data.file_purpose,
                !.key_pattern = file_data.key_pattern,
                !.dependencies = file_data.dependencies,
                !.extends_conforms = file_data.extends_conforms,
                !.concurrency = file_data.concurrency,
                !.complexity = file_data.complexity,
                !.notes = file_data.notes,
                !.file_size_bytes = file_data.file_size_bytes,
                !.line_count = file_data.line_count,
                !.last_modified = file_data.last_modified,
                !.file_hash = file_data.file_hash,
                !.last_scanned = now]

\* a row of file_history; the columns an INSERT does not name are NULL
HistoryRow(id, kind, path, hash, lines, previous, new, run) ==
    [file_id |-> id, change_type |-> kind, file_path |-> path,
     file_hash |-> hash, line_count |-> lines,
     previous_values |-> previous, new_values |-> new,
     scan_run_id |-> run]

\* the dicts previous / new of the modified branch, as json.dumps stores them
TrackedValues(r) ==
    << [layer |-> r.layer, domain_entity |-> r.domain_entity,
        complexity |-> r.complexity, line_count |-> r.line_count] >>

\* an insert whose history event carries no run id
InsertBranch_NoRun(fs, hist, now, file_data, scan_run_id) ==
    [files |-> Append(fs, NewFileRow(fs, now, file_data)),
     file_history |->
         Append(hist, HistoryRow(Len(fs) + 1, "created", file_data.file_path,
                                 file_data.file_hash, file_data.line_count,
                                 NoValues, NoValues, 0)),
     file_id |-> Len(fs) + 1,
     change_type |-> "created"]

\* upsert_file, "if existing is None": INSERT INTO files, INSERT INTO
\* file_history, return (file_id, 'created')
InsertBranch(fs, hist, now, file_data, scan_run_id) ==
    [files |-> Append(fs, NewFileRow(fs, now, file_data)),
     file_history |->
         Append(hist, HistoryRow(Len(fs) + 1, "created", file_data.file_path,
                                 file_data.file_hash, file_data.line_count,
                                 NoValues, NoValues, scan_run_id)),
     file_id |-> Len(fs) + 1,
     change_type |-> "created"]

\* a modified branch that logs its event as 'created'
ModifyBranch_LogsCreated(fs, hist, now, file_data, scan_run_id, existing) ==
    [files |-> [fs EXCEPT ![existing] = UpdatedFileRow(@, now, file_data)],
     file_history |->
         Append(hist, HistoryRow(existing, "created", file_data.file_path,
                                 file_data.file_hash, file_data.line_count,
                                 TrackedValues(fs[existing]),
                                 TrackedValues(file_data), scan_run_id)),
     file_id |-> existing,
     change_type |-> "modified"]

\* a modified branch that rewrites the latest event of the row in place
\* instead of appending one
ModifyBranch_Rewrite(fs, hist, now, file_data, scan_run_id, existing) ==
    LET mine == {k \in 1..Len(hist) : hist[k].file_id = existing}
        last == CHOOSE k \in mine : \A j \in mine : j <= k
    IN  [files |-> [fs EXCEPT ![existing] = UpdatedFileRow(@, now, file_data)],
         file_history |->
             [hist EXCEPT ![last] =
                 HistoryRow(existing, "modified", file_data.file_path,
                            file_data.file_hash, file_data.line_count,
                            TrackedValues(fs[existing]),
                            TrackedValues(file_data), scan_run_id)],
         file_id |-> existing,
         change_type |-> "modified"]

\* upsert_file, the hashes differ: UPDATE files, INSERT INTO file_history,
\* return (file_id, 'modified')
\* a modified branch that reads the previous values after the update
ModifyBranch_SnapshotAfterUpdate(fs, hist, now, file_data, scan_run_id, existing) ==
    [files |-> [fs EXCEPT ![existing] = UpdatedFileRow(@, now, file_data)],
     file_history |->
         Append(hist, HistoryRow(existing, "modified", file_data.file_path,
                                 file_data.file_hash, file_data.line_count,
                                 TrackedValues(file_data),
                                 TrackedValues(file_data), scan_run_id)),
     file_id |-> existing,
     change_type |-> "modified"]

ModifyBranch(fs, hist, now, file_data, scan_run_id, existing) ==
    [files |-> [fs EXCEPT ![existing] = UpdatedFileRow(@, now, file_data)],
     file_history |->
         Append(hist, HistoryRow(existing, "modified", file_data.file_path,
                                 file_data.file_hash, file_data.line_count,
                                 TrackedValues(fs[existing]),
                                 TrackedValues(file_data), scan_run_id)),
     file_id |-> existing,
     change_type |-> "modified"]

\* an unchanged branch that brings a flagged row back
TouchBranch_Reactivates(fs, hist, now, existing) ==
    [files |-> [fs EXCEPT ![existing].last_scanned = now,
                          ![existing].is_deleted = 0,
                          ![existing].deleted_at = NullInt],
     file_history |-> hist,
     file_id |-> existing,
     change_type |-> "unchanged"]

\* an unchanged branch that also resets first_seen
TouchBranch_Restat(fs, hist, now, existing) ==
    [files |-> [fs EXCEPT ![existing].last_scanned = now,
                          ![existing].first_seen = now],
     file_history |-> hist,
     file_id |-> existing,
     change_type |-> "unchanged"]

\* upsert_file, the hashes are equal: UPDATE files SET last_scanned,
\* return (file_id, 'unchanged')
TouchBranch(fs, hist, now, existing) ==
    [files |-> [fs EXCEPT ![existing].last_scanned = now],
     file_history |-> hist,
     file_id |-> existing,
     change_type |-> "unchanged"]

\* upsert_file: the tables after the call and the returned (file_id, change_type)
UpsertFile(fs, hist, now, file_data, scan_run_id) ==
    LET existing == GetFileByPath(fs, file_data.file_path)
    IN  IF existing = 0
        THEN InsertBranch(fs, hist, now, file_data, scan_run_id)
        ELSE IF fs[existing].file_hash # file_data.file_hash
        THEN ModifyBranch(fs, hist, now, file_data, scan_run_id, existing)
        ELSE TouchBranch(fs, hist, now, existing)

\* a SELECT without "AND is_deleted = 0"
DeletedFiles_AnyFlag(fs, scanned_paths) ==
    SelectSeq([i \in 1..Len(fs) |-> i],
              LAMBDA i : \A k \in 1..Len(scanned_paths) :
                            fs[i].file_path # scanned_paths[k])

\* the SELECT of mark_deleted_files: ids of the rows to flag, in rowid order
DeletedFiles(fs, scanned_paths) ==
    SelectSeq([i \in 1..Len(fs) |-> i],
              LAMBDA i : /\ \A k \in 1..Len(scanned_paths) :
                              fs[i].file_path # scanned_paths[k]
                         /\ fs[i].is_deleted = 0)

\* mark_deleted_files: the tables after the call and the returned count
\* a mark_deleted_files that flags every non-deleted row
MarkDeletedFiles_IgnorePathSet(fs, hist, now, scanned_paths, scan_run_id) ==
    LET deleted_files == DeletedFiles(fs, << >>)
        ids == {deleted_files[k] : k \in 1..Len(deleted_files)}
    IN  [files |-> [i \in 1..Len(fs) |->
                       IF i \in ids
                       THEN [fs[i] EXCEPT !.is_deleted = 1, !.deleted_at = now]
                       ELSE fs[i]],
         file_history |->
             hist \o [k \in 1..Len(deleted_files) |->
                         HistoryRow(deleted_files[k], "deleted",
                                    fs[deleted_files[k]].file_path,
                                    Null, NullInt, NoValues, NoValues, scan_run_id)],
         count |-> Len(deleted_files)]

MarkDeletedFiles(fs, hist, now, scanned_paths, scan_run_id) ==
    LET deleted_files == DeletedFiles(fs, scanned_paths)
        ids == {deleted_files[k] : k \in 1..Len(deleted_files)}
    IN  [files |-> [i \in 1..Len(fs) |->
                       IF i \in ids
                       THEN [fs[i] EXCEPT !.is_deleted = 1, !.deleted_at = now]
                       ELSE fs[i]],
         file_history |->
             hist \o [k \in 1..Len(deleted_files) |->
                         HistoryRow(deleted_files[k], "deleted",
                                    fs[deleted_files[k]].file_path,
                                    Null, NullInt, NoValues, NoValues, scan_run_id)],
         count |-> Len(deleted_files)]

-----------------------------------------------------------------------------
(* ViolationDetector: the rule engine *)

\* value LIKE '%word%' over the column values of the model (LIKE ignores
\* ASCII case); a NULL value makes the comparison NULL, which selects nothing
Like(value, word) ==
    CASE word = "BaseRepository" ->
           value \in {"BaseRepository<Goal>, Sendable", "BaseRepository<Goal>"}
      [] word = "Sendable" ->
           value \in {"Sendable + @MainActor", "@unchecked Sendable", "Sendable",
                      "BaseRepository<Goal>, Sendable"}
      [] word = "@MainActor" ->
           value \in {"Sendable + @MainActor", "@MainActor"}
      [] OTHER -> FALSE

\* file_path LIKE '%/Core/%': a directory of the path is named Core
LikeCoreDir(path) ==
    LET segs == Segments(path)
    IN  \E i \in 2..(Len(segs) - 1) : segs[i] = <<"Core">>

\* layer LIKE 'ViewModel%'
LikeViewModelPrefix(layer) ==
    layer \in {"ViewModel-Form", "ViewModel-List", "ViewModel-LLM", "ViewModel-Utility"}

RowIds(fs) == [i \in 1..Len(fs) |-> i]

\* the rule without its IS NULL test
CheckRepositoryBaseRepository_NoNullTest(fs) ==
    LET rows == SelectSeq(RowIds(fs), LAMBDA i :
                    /\ fs[i].layer = "Repository"
                    /\ fs[i].is_deleted = 0
                    /\ fs[i].extends_conforms # Null
                    /\ ~Like(fs[i].extends_conforms, "BaseRepository")
                    /\ ~LikeCoreDir(fs[i].file_path))
    IN  [k \in 1..Len(rows) |->
            [file_id |-> fs[rows[k]].id,
             violation_type |-> "missing_baserepository",
             severity |-> "high",
             description |-> "Repository " \o fs[rows[k]].file_path
                             \o " does not extend BaseRepository",
             recommendation |->
                 "Extend BaseRepository<DataType> for consistency with canonical pattern"]]

CheckRepositoryBaseRepository(fs) ==
    LET rows == SelectSeq(RowIds(fs), LAMBDA i :
                    /\ fs[i].layer = "Repository"
                    /\ fs[i].is_deleted = 0
                    /\ (fs[i].extends_conforms = Null
                        \/ ~Like(fs[i].extends_conforms, "BaseRepository"))
                    /\ ~LikeCoreDir(fs[i].file_path))
    IN  [k \in 1..Len(rows) |->
            [file_id |-> fs[rows[k]].id,
             violation_type |-> "missing_baserepository",
             severity |-> "high",
             description |-> "Repository " \o fs[rows[k]].file_path
                             \o " does not extend BaseRepository",
             recommendation |->
                 "Extend BaseRepository<DataType> for consistency with canonical pattern"]]

CheckRawSqlPatterns(fs) == << >>

\* the rule with Coordinator left out of its layers
CheckMissingSendable_NoCoordinator(fs) ==
    LET rows == SelectSeq(RowIds(fs), LAMBDA i :
                    /\ fs[i].layer \in {"Repository", "Service-Progress",
                                        "Service-Validation"}
                    /\ fs[i].is_deleted = 0
                    /\ fs[i].concurrency # Null
                    /\ ~Like(fs[i].concurrency, "Sendable"))
    IN  [k \in 1..Len(rows) |->
            [file_id |-> fs[rows[k]].id,
             violation_type |-> "missing_sendable",
             severity |-> "medium",
             description |-> fs[rows[k]].layer \o " " \o fs[rows[k]].file_path
                             \o " is not Sendable",
             recommendation |->
                 "Add Sendable conformance for Swift 6 concurrency safety"]]

CheckMissingSendable(fs) ==
    LET rows == SelectSeq(RowIds(fs), LAMBDA i :
                    /\ fs[i].layer \in {"Coordinator", "Repository",
                                        "Service-Progress", "Service-Validation"}
                    /\ fs[i].is_deleted = 0
                    /\ fs[i].concurrency # Null
                    /\ ~Like(fs[i].concurrency, "Sendable"))
    IN  [k \in 1..Len(rows) |->
            [file_id |-> fs[rows[k]].id,
             violation_type |-> "missing_sendable",
             severity |-> "medium",
             description |-> fs[rows[k]].layer \o " " \o fs[rows[k]].file_path
                             \o " is not Sendable",
             recommendation |->
                 "Add Sendable conformance for Swift 6 concurrency safety"]]

CheckMissingMainActor(fs) ==
    LET rows == SelectSeq(RowIds(fs), LAMBDA i :
                    /\ LikeViewModelPrefix(fs[i].layer)
                    /\ fs[i].is_deleted = 0
                    /\ fs[i].concurrency # Null
                    /\ ~Like(fs[i].concurrency, "@MainActor"))
    IN  [k \in 1..Len(rows) |->
            [file_id |-> fs[rows[k]].id,
             violation_type |-> "missing_mainactor",
             severity |-> "high",
             description |-> "ViewModel " \o fs[rows[k]].file_path
                             \o " is missing @MainActor",
             recommendation |->
                 "Add @MainActor to ensure UI updates on main thread"]]

\* the violations list check_all_violations builds and returns
DetectedViolations(fs) ==
    CheckRepositoryBaseRepository(fs) \o CheckRawSqlPatterns(fs)
        \o CheckMissingSendable(fs) \o CheckMissingMainActor(fs)

\* the uniqueness constraint of table violations that INSERT OR IGNORE
\* relies on: one open row per (file_id, violation_type)
UniqueConflict(viol, v) ==
    \E i \in 1..Len(viol) :
        /\ viol[i].file_id = v.file_id
        /\ viol[i].violation_type = v.violation_type
        /\ viol[i].status = "open"

\* INSERT INTO violations (...) VALUES (..., 'open'), without OR IGNORE
InsertViolation(viol, v) ==
    Append(viol, [file_id |-> v.file_id,
                  violation_type |-> v.violation_type,
                  severity |-> v.severity,
                  description |-> v.description,
                  recommendation |-> v.recommendation,
                  status |-> "open"])

\* a plain INSERT, without OR IGNORE
InsertOrIgnoreViolation_Always(viol, v) == InsertViolation(viol, v)

\* INSERT OR IGNORE INTO violations (...) VALUES (..., 'open')
InsertOrIgnoreViolation(viol, v) ==
    IF UniqueConflict(viol, v) THEN viol ELSE InsertViolation(viol, v)

\* every draft inserted, none ignored
SaveViolations_InsertAll(viol, vs) ==
    viol \o [k \in 1..Len(vs) |->
                [file_id |-> vs[k].file_id,
                 violation_type |-> vs[k].violation_type,
                 severity |-> vs[k].severity,
                 description |-> vs[k].description,
                 recommendation |-> vs[k].recommendation,
                 status |-> "open"]]

RECURSIVE SaveViolations(_, _)
\* for v in violations: INSERT OR IGNORE ...
SaveViolations(viol, vs) ==
    IF vs = << >> THEN viol
    ELSE SaveViolations(InsertOrIgnoreViolation(viol, vs[1]), Tail(vs))

\* a rule run that clears the table before it saves its drafts
CheckAllViolations_Refresh(fs, viol) == SaveViolations(<< >>, DetectedViolations(fs))

\* check_all_violations: table violations after the call
CheckAllViolations(fs, viol) == SaveViolations(viol, DetectedViolations(fs))

-----------------------------------------------------------------------------
(* Statistics of a scan, computed in main() *)

\* SELECT * FROM active_files: the rows that are not flagged deleted
ActiveFiles(fs) == SelectSeq(fs, LAMBDA r : r.is_deleted = 0)

\* a defaultdict(int) counted over the rows, as the dict it ends as
CountBy(rows, column) ==
    LET keys == {rows[i][column] : i \in 1..Len(rows)}
    IN  [k \in keys |-> Cardinality({i \in 1..Len(rows) : rows[i][column] = k})]

RECURSIVE SumLines(_)
SumLines(rows) ==
    IF rows = << >> THEN 0
    ELSE (IF rows[1].line_count = NullInt THEN 0 ELSE rows[1].line_count)
         + SumLines(Tail(rows))

\* a loop that takes a later file of equal line count
Largest_LastWins(rows, largest_file, largest_lines) ==
    LET best == {i \in 1..Len(rows) :
                    /\ rows[i].line_count > 0
                    /\ \A j \in 1..Len(rows) : rows[j].line_count <= rows[i].line_count}
    IN  IF best = {} THEN [file |-> largest_file, lines |-> largest_lines]
        ELSE LET last == CHOOSE i \in best : \A j \in best : j <= i
             IN  [file |-> rows[last].file_path, lines |-> rows[last].line_count]

RECURSIVE Largest(_, _, _)
\* the loop "if f['line_count'] and f['line_count'] > largest_lines"
Largest(rows, largest_file, largest_lines) ==
    IF rows = << >> THEN [file |-> largest_file, lines |-> largest_lines]
    ELSE IF rows[1].line_count # NullInt /\ rows[1].line_count # 0
            /\ rows[1].line_count > largest_lines
    THEN Largest(Tail(rows), rows[1].file_path, rows[1].line_count)
    ELSE Largest(Tail(rows), largest_file, largest_lines)

\* aggregate_stats of main(); the average is kept as numerator / denominator
AggregateStats(fs) ==
    LET all_files == ActiveFiles(fs)
        complex == SelectSeq(all_files, LAMBDA r : r.complexity = "Complex")
        big == Largest(all_files, Null, 0)
        total == SumLines(all_files)
    IN  [total_files |-> Len(all_files),
         files_by_layer |-> CountBy(all_files, "layer"),
         files_by_domain |-> CountBy(all_files, "domain_entity"),
         files_by_complexity |-> CountBy(all_files, "complexity"),
         files_by_concurrency |-> CountBy(all_files, "concurrency"),
         total_lines |-> total,
         avg_lines_per_file |->
             IF Len(all_files) > 0 THEN <<total, Len(all_files)>> ELSE <<0, 1>>,
         largest_file |-> big.file,
         largest_file_lines |-> big.lines,
         complex_files_count |-> Len(complex),
         complex_files_list |-> [k \in 1..Len(complex) |-> complex[k].file_path]]

\* save_statistics: INSERT INTO scan_statistics
SaveStatistics(st, scan_run_id, stats) ==
    Append(st, [scan_run_id |-> scan_run_id] @@ stats)

-----------------------------------------------------------------------------
(* migrate_from_csv: the legacy import *)

\* an import that leaves the fingerprint column NULL
CsvFileData_NullHash(row, now) ==
    [file_path |-> row.file_path,
     layer |-> row.layer,
     domain_entity |-> row.domain_entity,
     file_purpose |-> row.file_purpose,
     key_pattern |-> row.key_pattern,
     dependencies |-> row.dependencies,
     extends_conforms |-> row.extends_conforms,
     concurrency |-> row.concurrency,
     complexity |-> row.complexity,
     notes |-> row.notes,
     file_hash |-> Null,
     line_count |-> 0,
     file_size_bytes |-> 0,
     last_modified |-> now]

\* file_data of a CSV row, as migrate_from_csv maps the columns
CsvFileData(row, now) ==
    [file_path |-> row.file_path,
     layer |-> row.layer,
     domain_entity |-> row.domain_entity,
     file_purpose |-> row.file_purpose,
     key_pattern |-> row.key_pattern,
     dependencies |-> row.dependencies,
     extends_conforms |-> row.extends_conforms,
     concurrency |-> row.concurrency,
     complexity |-> row.complexity,
     notes |-> row.notes,
     file_hash |-> "",
     line_count |-> 0,
     file_size_bytes |-> 0,
     last_modified |-> now]

RowRepo ==
    [file_path |-> PathRepo, layer |-> "Repository", domain_entity |-> "Goal",
     file_purpose |-> "Goal persistence", key_pattern |-> "", dependencies |-> "",
     extends_conforms |-> "", concurrency |-> "None", complexity |-> "Medium",
     notes |-> "legacy"]

RowCoord ==
    [file_path |-> PathCoord, layer |-> "Coordinator", domain_entity |-> "Goal",
     file_purpose |-> "", key_pattern |-> "Sendable Coordinator", dependencies |-> "",
     extends_conforms |-> "Sendable", concurrency |-> "Sendable",
     complexity |-> "Simple", notes |-> ""]

\* a row of the CSV that ends after its third field: csv.DictReader fills
\* the columns the row does not reach with None
ShortRow(file_path, layer, domain_entity) ==
    [file_path |-> file_path, layer |-> layer, domain_entity |-> domain_entity,
     file_purpose |-> Null, key_pattern |-> Null, dependencies |-> Null,
     extends_conforms |-> Null, concurrency |-> Null, complexity |-> Null,
     notes |-> Null]

RowService == ShortRow(PathService, "Service-Progress", "Goal")

RowListVM == ShortRow(PathListVM, "ViewModel-List", "Goal")

RowCoreRepo ==
    [file_path |-> PathCoreRepo, layer |-> "Repository", domain_entity |-> "Infrastructure",
     file_purpose |-> "Shared store", key_pattern |-> "", dependencies |-> "",
     extends_conforms |-> "", concurrency |-> "Sendable", complexity |-> "Simple",
     notes |-> ""]

\* ARCHITECTURE_MAP_COMPLETE.csv: missing, or holding these rows
CsvChoices ==
    {[exists |-> FALSE, rows |-> << >>],
     [exists |-> TRUE,
      rows |-> <<RowRepo, RowCoord, RowService, RowListVM, RowCoreRepo>>]}

-----------------------------------------------------------------------------
(* main(): one invocation of the program *)

ZeroStats == [scanned |-> 0, created |-> 0, modified |-> 0, deleted |-> 0, errors |-> 0]

NoLocals ==
    [queue |-> << >>, run_id |-> 0, stats |-> ZeroStats,
     scanned_paths |-> << >>, imported |-> 0, file_id |-> 0, change_type |-> "none"]

NoArgs == [init |-> FALSE, scan |-> FALSE, check_violations |-> FALSE, csv |-> << >>,
           csv_exists |-> FALSE]

\* the flag sets of an invocation that touches the store; without a flag
\* main() sets scan and check_violations (and report)
ArgChoices ==
    {[init |-> i, scan |-> sc, check_violations |-> ch] :
        i \in BOOLEAN, sc \in BOOLEAN, ch \in BOOLEAN} \
    {[init |-> FALSE, scan |-> FALSE, check_violations |-> FALSE]}

\* where main() goes after the named stage
StageAfter(a, stage) ==
    IF stage = "start" /\ a.init /\ a.csv_exists THEN "import_start"
    ELSE IF stage \in {"start", "init"} /\ a.scan THEN "scan_files"
    ELSE IF stage \in {"start", "init", "scan"} /\ a.check_violations THEN "check"
    ELSE "idle"

\* the order in which rglob lists the files of the tree
RglobOrder ==
    <<PathVM, PathDbVM, PathVMBasics, PathModelC, PathViewA, PathRepo, PathCoord>>

TypeOK ==
    /\ disk \in [Paths -> Contents \cup {Absent}]
    /\ clock \in Nat
    /\ pc \in {"idle", "import_start", "import_rows", "import_complete", "scan_files",
               "scan_start", "scan_upsert", "scan_mark", "scan_stats", "scan_complete",
               "check"}

Init ==
    /\ disk = [p \in Paths |-> Absent]
    /\ files = << >>
    /\ file_history = << >>
    /\ scan_runs = << >>
    /\ violations = << >>
    /\ scan_statistics = << >>
    /\ clock = 1
    /\ pc = "idle"
    /\ args = NoArgs
    /\ loc = NoLocals
    /\ initialized = FALSE

\* main() parses its flags.  The schema is created by the first invocation,
\* which is the one with --init.
Invoke(a, csv, max_scans) ==
    /\ pc = "idle"
    /\ a.init <=> ~initialized
    /\ a.scan => Len(scan_statistics) < max_scans
    /\ a.init \/ csv = [exists |-> FALSE, rows |-> << >>]
    /\ LET a2 == [init |-> a.init, scan |-> a.scan,
                  check_violations |-> a.check_violations,
                  csv |-> csv.rows, csv_exists |-> csv.exists]
       IN  /\ args' = IF StageAfter(a2, "start") = "idle" THEN NoArgs ELSE a2
           /\ pc' = StageAfter(a2, "start")
    /\ initialized' = TRUE
    /\ loc' = NoLocals
    /\ UNCHANGED <<disk, dbvars, clock>>

\* migrate_from_csv: rows = list(reader); scan_run_id = db.start_scan_run()
ImportStart ==
    /\ pc = "import_start"
    /\ scan_runs' = StartScanRun(scan_runs, clock)
    /\ loc' = [NoLocals EXCEPT !.queue = args.csv, !.run_id = Len(scan_runs) + 1]
    /\ pc' = IF args.csv = << >> THEN "import_complete" ELSE "import_rows"
    /\ clock' = clock + 1
    /\ UNCHANGED <<disk, files, file_history, violations, scan_statistics, args,
                   initialized>>

\* migrate_from_csv: one turn of "for row in rows"
ImportRow ==
    /\ pc = "import_rows"
    /\ loc.queue # << >>
    /\ LET r == UpsertFile(files, file_history, clock,
                           CsvFileData(Head(loc.queue), clock), loc.run_id)
       IN  /\ files' = r.files
           /\ file_history' = r.file_history
           /\ loc' = [loc EXCEPT !.queue = Tail(@), !.imported = @ + 1,
                                 !.file_id = r.file_id,
                                 !.change_type = r.change_type]
    /\ pc' = IF Tail(loc.queue) = << >> THEN "import_complete" ELSE "import_rows"
    /\ clock' = clock + 1
    /\ UNCHANGED <<disk, scan_runs, violations, scan_statistics, args, initialized>>

\* migrate_from_csv: db.complete_scan_run(scan_run_id, {'scanned': imported,
\* 'created': imported})
ImportComplete ==
    /\ pc = "import_complete"
    /\ scan_runs' = CompleteScanRun(scan_runs, clock, loc.run_id,
                        [ZeroStats EXCEPT !.scanned = loc.imported,
                                          !.created = loc.imported])
    /\ loc' = NoLocals
    /\ pc' = StageAfter(args, "init")
    /\ args' = IF StageAfter(args, "init") = "idle" THEN NoArgs ELSE args
    /\ clock' = clock + 1
    /\ UNCHANGED <<disk, files, file_history, violations, scan_statistics, initialized>>

\* the trees a scan may find: the files change between invocations
Trees == {t \in [Paths -> UNION {Versions(p) : p \in Paths} \cup {Absent}] :
             \A p \in Paths : t[p] \in Versions(p) \cup {Absent}}

\* a scan_all_files that gives up at a file whose analysis raises
ScanAllFiles_AbortOnError(tree) ==
    /\ pc = "scan_files"
    /\ disk' = tree
    /\ loc' = [NoLocals EXCEPT !.queue =
                  LET swift_files == SelectSeq(RglobOrder, LAMBDA p : tree[p] # Absent)
                  IN  IF \E k \in 1..Len(swift_files) : Unreadable(tree[swift_files[k]])
                      THEN << >>
                      ELSE [k \in 1..Len(swift_files) |->
                               AnalyzeFile(swift_files[k], tree[swift_files[k]])]]
    /\ pc' = "scan_start"
    /\ UNCHANGED <<dbvars, clock, args, initialized>>

\* scan_all_files over the tree as it is now: every *.swift file is analysed;
\* a file whose analysis raises is printed and left out of the result
ScanAllFiles(tree) ==
    /\ pc = "scan_files"
    /\ disk' = tree
    /\ loc' = [NoLocals EXCEPT !.queue =
                  LET swift_files == SelectSeq(RglobOrder, LAMBDA p : tree[p] # Absent)
                      readable == SelectSeq(swift_files, LAMBDA p : ~Unreadable(tree[p]))
                  IN  [k \in 1..Len(readable) |->
                          AnalyzeFile(readable[k], tree[readable[k]])]]
    /\ pc' = "scan_start"
    /\ UNCHANGED <<dbvars, clock, args, initialized>>

\* main(): scan_run_id = db.start_scan_run(); stats = {...: 0}
ScanStart ==
    /\ pc = "scan_start"
    /\ scan_runs' = StartScanRun(scan_runs, clock)
    /\ loc' = [loc EXCEPT !.run_id = Len(scan_runs) + 1, !.stats = ZeroStats,
                          !.scanned_paths = << >>]
    /\ pc' = IF loc.queue = << >> THEN "scan_mark" ELSE "scan_upsert"
    /\ clock' = clock + 1
    /\ UNCHANGED <<disk, files, file_history, violations, scan_statistics, args,
                   initialized>>

\* a loop that counts every file that was there before as modified
ScanUpsert_CountsTouched ==
    /\ pc = "scan_upsert"
    /\ loc.queue # << >>
    /\ LET file_data == Head(loc.queue)
           r == UpsertFile(files, file_history, clock, file_data, loc.run_id)
       IN  /\ files' = r.files
           /\ file_history' = r.file_history
           /\ loc' = [loc EXCEPT
                        !.queue = Tail(@),
                        !.file_id = r.file_id,
                        !.change_type = r.change_type,
                        !.scanned_paths = Append(@, file_data.file_path),
                        !.stats.scanned = @ + 1,
                        !.stats.created = IF r.change_type = "created" THEN @ + 1 ELSE @,
                        !.stats.modified = IF r.change_type # "created" THEN @ + 1 ELSE @]
    /\ pc' = IF Tail(loc.queue) = << >> THEN "scan_mark" ELSE "scan_upsert"
    /\ clock' = clock + 1
    /\ UNCHANGED <<disk, scan_runs, violations, scan_statistics, args, initialized>>

\* main(): one turn of "for file_data in files"
ScanUpsert ==
    /\ pc = "scan_upsert"
    /\ loc.queue # << >>
    /\ LET file_data == Head(loc.queue)
           r == UpsertFile(files, file_history, clock, file_data, loc.run_id)
       IN  /\ files' = r.files
           /\ file_history' = r.file_history
           /\ loc' = [loc EXCEPT
                        !.queue = Tail(@),
                        !.file_id = r.file_id,
                        !.change_type = r.change_type,
                        !.scanned_paths = Append(@, file_data.file_path),
                        !.stats.scanned = @ + 1,
                        !.stats.created = IF r.change_type = "created" THEN @ + 1 ELSE @,
                        !.stats.modified = IF r.change_type = "modified" THEN @ + 1 ELSE @]
    /\ pc' = IF Tail(loc.queue) = << >> THEN "scan_mark" ELSE "scan_upsert"
    /\ clock' = clock + 1
    /\ UNCHANGED <<disk, scan_runs, violations, scan_statistics, args, initialized>>

\* a mark step that also writes its count into the row of the run
ScanMarkDeleted_WritesRun ==
    /\ pc = "scan_mark"
    /\ LET r == MarkDeletedFiles(files, file_history, clock, loc.scanned_paths,
                                 loc.run_id)
       IN  /\ files' = r.files
           /\ file_history' = r.file_history
           /\ scan_runs' = [scan_runs EXCEPT ![loc.run_id].files_deleted = r.count]
           /\ loc' = [loc EXCEPT !.stats.deleted = r.count]
    /\ pc' = "scan_stats"
    /\ clock' = clock + 1
    /\ UNCHANGED <<disk, violations, scan_statistics, args, initialized>>

\* main(): stats['deleted'] = db.mark_deleted_files(scanned_paths, scan_run_id)
ScanMarkDeleted ==
    /\ pc = "scan_mark"
    /\ LET r == MarkDeletedFiles(files, file_history, clock, loc.scanned_paths,
                                 loc.run_id)
       IN  /\ files' = r.files
           /\ file_history' = r.file_history
           /\ loc' = [loc EXCEPT !.stats.deleted = r.count]
    /\ pc' = "scan_stats"
    /\ clock' = clock + 1
    /\ UNCHANGED <<disk, scan_runs, violations, scan_statistics, args, initialized>>

\* main(): the statistics are computed and db.save_statistics is called
ScanStatistics ==
    /\ pc = "scan_stats"
    /\ scan_statistics' = SaveStatistics(scan_statistics, loc.run_id,
                                         AggregateStats(files))
    /\ pc' = "scan_complete"
    /\ UNCHANGED <<disk, files, file_history, scan_runs, violations, clock, args, loc,
                   initialized>>

\* main(): db.complete_scan_run(scan_run_id, stats)
ScanComplete ==
    /\ pc = "scan_complete"
    /\ scan_runs' = CompleteScanRun(scan_runs, clock, loc.run_id, loc.stats)
    /\ loc' = NoLocals
    /\ pc' = StageAfter(args, "scan")
    /\ args' = IF StageAfter(args, "scan") = "idle" THEN NoArgs ELSE args
    /\ clock' = clock + 1
    /\ UNCHANGED <<disk, files, file_history, violations, scan_statistics, initialized>>

\* main(): detector.check_all_violations()
CheckViolations ==
    /\ pc = "check"
    /\ violations' = CheckAllViolations(files, violations)
    /\ pc' = "idle"
    /\ args' = NoArgs
    /\ UNCHANGED <<disk, files, file_history, scan_runs, scan_statistics, clock, loc,
                   initialized>>

\* outside the pipeline: somebody marks an open violation resolved
ResolveViolation(i) ==
    /\ pc = "idle"
    /\ i \in 1..Len(violations)
    /\ violations[i].status = "open"
    /\ Cardinality({k \in 1..Len(violations) : violations[k].status = "resolved"})
          < MaxResolved
    /\ violations' = [violations EXCEPT ![i].status = "resolved"]
    /\ UNCHANGED <<disk, files, file_history, scan_runs, scan_statistics, clock, pc,
                   args, loc, initialized>>

\* the steps of the pipeline on the store
StoreSteps ==
    \/ ImportStart
    \/ ImportRow
    \/ ImportComplete
    \/ ScanStart
    \/ ScanUpsert
    \/ ScanMarkDeleted
    \/ ScanStatistics
    \/ ScanComplete
    \/ CheckViolations

\* the steps of the pipeline other than the parsing of the flags
Pipeline ==
    \/ \E tree \in Trees : ScanAllFiles(tree)
    \/ StoreSteps

Next ==
    \/ \E a \in ArgChoices, csv \in CsvChoices : Invoke(a, csv, MaxScans)
    \/ Pipeline

\* serialized invocations of the program
Spec == Init /\ [][Next]_vars

NextExt ==
    \/ \E a \in ArgChoices, csv \in CsvChoices : Invoke(a, csv, MaxScansExt)
    \/ Pipeline
    \/ \E i \in 1..Len(violations) : ResolveViolation(i)

\* serialized invocations, with violations resolved from outside in between
SpecExt == Init /\ [][NextExt]_vars

\* the contents of the files of trees with equal and with zero line counts
VersionsWide(path) ==
    IF path = PathRepo THEN {"plain50", "safe200", "empty0"}
    ELSE IF path = PathVM THEN {"tie200", "big500"}
    ELSE {}

TreesWide == {t \in [Paths -> UNION {VersionsWide(p) : p \in Paths} \cup {Absent}] :
                 \A p \in Paths : t[p] \in VersionsWide(p) \cup {Absent}}

NextWide ==
    \/ \E a \in ArgChoices, csv \in CsvChoices : Invoke(a, csv, MaxScansWide)
    \/ \E tree \in TreesWide : ScanAllFiles(tree)
    \/ StoreSteps

\* serialized invocations over trees with equal and with zero line counts
SpecWide == Init /\ [][NextWide]_vars

\* the contents of the files of a tree of three files: a view of 50 lines
\* that is edited, a coordinator of 200 lines, a model of 500 lines
VersionsABC(path) ==
    IF path = PathViewA THEN {"plain50", "safe200"}
    ELSE IF path = PathCoord THEN {"coord200"}
    ELSE IF path = PathModelC THEN {"big500"}
    ELSE {}

TreesABC == {t \in [Paths -> UNION {VersionsABC(p) : p \in Paths} \cup {Absent}] :
                \A p \in Paths : t[p] \in VersionsABC(p) \cup {Absent}}

NextABC ==
    \/ \E a \in ArgChoices, csv \in CsvChoices : Invoke(a, csv, MaxScansABC)
    \/ \E tree \in TreesABC : ScanAllFiles(tree)
    \/ StoreSteps

\* serialized invocations over the trees of the three files
SpecABC == Init /\ [][NextABC]_vars

\* main(): a statement of db.upsert_file raises sqlite3.Error (the store
\* cannot persist).  Nothing catches it: the exception leaves the for loop
\* and main(), __exit__ closes the connection, which drops the statements
\* upsert_file had not committed, and the process ends.  The run that
\* start_scan_run opened stays as it is.
ScanUpsertFails ==
    /\ pc = "scan_upsert"
    /\ loc.queue # << >>
    /\ Cardinality({r \in 1..Len(scan_runs) :
                       r # loc.run_id /\ scan_runs[r].completed_at = NullInt})
          < MaxFailures
    /\ pc' = "idle"
    /\ args' = NoArgs
    /\ loc' = NoLocals
    /\ UNCHANGED <<disk, dbvars, clock, initialized>>

NextFail ==
    \/ \E a \in ArgChoices, csv \in CsvChoices : Invoke(a, csv, MaxScansFail)
    \/ Pipeline
    \/ ScanUpsertFails

\* serialized invocations, with store writes of a scan that may fail
SpecFail == Init /\ [][NextFail]_vars

\* a main() that catches the error of start_scan_run and goes on without a run
ScanStartFails_Continues ==
    /\ pc = "scan_start"
    /\ loc' = [loc EXCEPT !.run_id = 0, !.stats = ZeroStats, !.scanned_paths = << >>]
    /\ pc' = IF loc.queue = << >> THEN "scan_mark" ELSE "scan_upsert"
    /\ UNCHANGED <<disk, dbvars, clock, args, initialized>>

\* main(): scan_run_id = db.start_scan_run() raises sqlite3.Error (the INSERT
\* or its commit fails).  Nothing catches it: the exception leaves main()
\* before the loop over the files, __exit__ closes the connection, which
\* drops an INSERT that was not committed, and the process ends.
ScanStartFails ==
    /\ pc = "scan_start"
    /\ pc' = "idle"
    /\ args' = NoArgs
    /\ loc' = NoLocals
    /\ UNCHANGED <<disk, dbvars, clock, initialized>>

NextStartFail ==
    \/ \E a \in ArgChoices, csv \in CsvChoices : Invoke(a, csv, MaxScansFail)
    \/ Pipeline
    \/ ScanStartFails

\* serialized invocations, with a run ledger that may fail to open a run
SpecStartFail == Init /\ [][NextStartFail]_vars

\* the scans over the trees of files around the thresholds
MaxScansEdge == 2

\* the contents of the files of trees around the two thresholds
VersionsEdge(path) ==
    IF path = PathRepo THEN {"n149", "n150", "n151"}
    ELSE IF path = PathVM THEN {"n399", "n400", "n401"}
    ELSE {}

TreesEdge == {t \in [Paths -> UNION {VersionsEdge(p) : p \in Paths} \cup {Absent}] :
                 \A p \in Paths : t[p] \in VersionsEdge(p) \cup {Absent}}

NextEdge ==
    \/ \E a \in ArgChoices : Invoke(a, [exists |-> FALSE, rows |-> << >>], MaxScansEdge)
    \/ \E tree \in TreesEdge : ScanAllFiles(tree)
    \/ ScanStart
    \/ ScanUpsert
    \/ ScanMarkDeleted
    \/ ScanStatistics
    \/ ScanComplete
    \/ CheckViolations

\* serialized invocations over trees of files around the two thresholds
SpecEdge == Init /\ [][NextEdge]_vars

\* the scans over the trees of files in sub-category directories
MaxScansLayer == 2

\* the contents of the files of trees with files in sub-category directories
VersionsLayer(path) ==
    IF path \in {PathVM, PathDbVM, PathVMBasics, PathRepo, PathModelC} THEN {"plain50"}
    ELSE {}

TreesLayer == {t \in [Paths -> UNION {VersionsLayer(p) : p \in Paths} \cup {Absent}] :
                  \A p \in Paths : t[p] \in VersionsLayer(p) \cup {Absent}}

NextLayer ==
    \/ \E a \in ArgChoices : Invoke(a, [exists |-> FALSE, rows |-> << >>], MaxScansLayer)
    \/ \E tree \in TreesLayer : ScanAllFiles(tree)
    \/ ScanStart
    \/ ScanUpsert
    \/ ScanMarkDeleted
    \/ ScanStatistics
    \/ ScanComplete
    \/ CheckViolations

\* serialized invocations over trees with files in sub-category directories
SpecLayer == Init /\ [][NextLayer]_vars

\* the scans of which a store call may fail between its statements
MaxScansAtomic == 2

\* a connection whose close commits the transaction that is open
CloseConnection_Commits(committed, pending) == pending

\* __exit__: self.conn.close() without a commit.  SQLite rolls back the
\* transaction the connection has open: the store keeps what was committed
\* and loses the statements executed since.
CloseConnection(committed, pending) == committed

\* upsert_file when the statement after its first write raises: the INSERT
\* or UPDATE on files is executed, the INSERT into file_history is not (in
\* the unchanged branch the one UPDATE is executed and the commit raises)
UpsertPending(fs, hist, now, file_data, scan_run_id) ==
    [files |-> UpsertFile(fs, hist, now, file_data, scan_run_id).files,
     file_history |-> hist]

\* mark_deleted_files when the INSERT into file_history of turn n + 1 of
\* its loop raises: n turns are executed, and the UPDATE of turn n + 1
MarkDeletedPending(fs, hist, now, scanned_paths, scan_run_id, n) ==
    LET deleted_files == DeletedFiles(fs, scanned_paths)
        ids == {deleted_files[k] : k \in 1..(n + 1)}
    IN  [files |-> [i \in 1..Len(fs) |->
                       IF i \in ids
                       THEN [fs[i] EXCEPT !.is_deleted = 1, !.deleted_at = now]
                       ELSE fs[i]],
         file_history |->
             hist \o [k \in 1..n |->
                         HistoryRow(deleted_files[k], "deleted",
                                    fs[deleted_files[k]].file_path,
                                    Null, NullInt, NoValues, NoValues, scan_run_id)]]

\* the invocations that ended in an exception after opening a run
FailedRuns ==
    {r \in 1..Len(scan_runs) : r # loc.run_id /\ scan_runs[r].completed_at = NullInt}

\* main(): db.upsert_file raises sqlite3.Error after its first write.
\* Nothing catches it: the exception leaves main() and __exit__ closes the
\* connection with the transaction of the call still open.
ScanUpsertFailsMidway ==
    /\ pc = "scan_upsert"
    /\ loc.queue # << >>
    /\ Cardinality(FailedRuns) < MaxFailures
    /\ LET committed == [files |-> files, file_history |-> file_history]
           pending == UpsertPending(files, file_history, clock, Head(loc.queue),
                                    loc.run_id)
           kept == CloseConnection(committed, pending)
       IN  /\ files' = kept.files
           /\ file_history' = kept.file_history
    /\ pc' = "idle"
    /\ args' = NoArgs
    /\ loc' = NoLocals
    /\ UNCHANGED <<disk, scan_runs, violations, scan_statistics, clock, initialized>>

\* main(): db.mark_deleted_files raises sqlite3.Error in turn n + 1 of its
\* loop, between the UPDATE and the INSERT.  Nothing catches it: the
\* exception leaves main() and __exit__ closes the connection with the
\* transaction of the call still open.
ScanMarkFailsMidway(n) ==
    /\ pc = "scan_mark"
    /\ n \in 0..(Len(DeletedFiles(files, loc.scanned_paths)) - 1)
    /\ Cardinality(FailedRuns) < MaxFailures
    /\ LET committed == [files |-> files, file_history |-> file_history]
           pending == MarkDeletedPending(files, file_history, clock,
                                         loc.scanned_paths, loc.run_id, n)
           kept == CloseConnection(committed, pending)
       IN  /\ files' = kept.files
           /\ file_history' = kept.file_history
    /\ pc' = "idle"
    /\ args' = NoArgs
    /\ loc' = NoLocals
    /\ UNCHANGED <<disk, scan_runs, violations, scan_statistics, clock, initialized>>

\* the contents of the files of the trees of these scans
VersionsAtomic(path) ==
    IF path = PathRepo THEN {"plain50", "safe200"}
    ELSE IF path = PathVM THEN {"big500"}
    ELSE {}

TreesAtomic == {t \in [Paths -> UNION {VersionsAtomic(p) : p \in Paths} \cup {Absent}] :
                   \A p \in Paths : t[p] \in VersionsAtomic(p) \cup {Absent}}

NextAtomic ==
    \/ \E a \in ArgChoices : Invoke(a, [exists |-> FALSE, rows |-> << >>], MaxScansAtomic)
    \/ \E tree \in TreesAtomic : ScanAllFiles(tree)
    \/ ScanStart
    \/ ScanUpsert
    \/ ScanMarkDeleted
    \/ ScanStatistics
    \/ ScanComplete
    \/ CheckViolations
    \/ ScanUpsertFailsMidway
    \/ \E n \in 0..Len(files) : ScanMarkFailsMidway(n)

\* serialized invocations, with store calls that may fail between their
\* statements
SpecAtomic == Init /\ [][NextAtomic]_vars

\* the scans two processes may run at once
MaxScansTwo == 2

\* the contents of the files of the trees two processes scan
VersionsTwo(path) ==
    IF path = PathRepo THEN {"plain50", "notutf8"}
    ELSE IF path = PathVM THEN {"big500"}
    ELSE {}

TreesTwo == {t \in [Paths -> UNION {VersionsTwo(p) : p \in Paths} \cup {Absent}] :
                \A p \in Paths : t[p] \in VersionsTwo(p) \cup {Absent}}

\* main(): the files scan_all_files returns for a tree
AnalyzedFiles(tree) ==
    LET swift_files == SelectSeq(RglobOrder, LAMBDA p : tree[p] # Absent)
        readable == SelectSeq(swift_files, LAMBDA p : ~Unreadable(tree[p]))
    IN  [k \in 1..Len(readable) |-> AnalyzeFile(readable[k], tree[readable[k]])]

\* main(): the loop "for file_data in files" of a scan, run to its end
RECURSIVE UpsertAll(_, _, _, _, _, _)
UpsertAll(fs, hist, now, queue, scan_run_id, stats) ==
    IF queue = << >>
    THEN [files |-> fs, file_history |-> hist, now |-> now, stats |-> stats]
    ELSE LET r == UpsertFile(fs, hist, now, Head(queue), scan_run_id)
         IN  UpsertAll(r.files, r.file_history, now + 1, Tail(queue), scan_run_id,
                       [stats EXCEPT
                          !.scanned = @ + 1,
                          !.created = IF r.change_type = "created" THEN @ + 1 ELSE @,
                          !.modified = IF r.change_type = "modified" THEN @ + 1 ELSE @])

\* main() --scan in a second process, on a connection of its own: the whole
\* scan of that process takes place between two store steps of the scan of
\* the first process.  Every store method commits by itself and the two
\* connections share nothing but the database file, so nothing makes the
\* second process wait for the run of the first to end.
ConcurrentScan(tree) ==
    /\ pc \in {"scan_upsert", "scan_mark"}
    /\ Len(scan_statistics) < MaxScansTwo
    /\ Len(scan_runs) = loc.run_id
    /\ LET files_found == AnalyzedFiles(tree)
           run_id == Len(scan_runs) + 1
           started == StartScanRun(scan_runs, clock)
           u == UpsertAll(files, file_history, clock + 1, files_found, run_id, ZeroStats)
           m == MarkDeletedFiles(u.files, u.file_history, u.now,
                                 [k \in 1..Len(files_found) |-> files_found[k].file_path],
                                 run_id)
           stats == [u.stats EXCEPT !.deleted = m.count]
       IN  /\ disk' = tree
           /\ files' = m.files
           /\ file_history' = m.file_history
           /\ scan_statistics' = SaveStatistics(scan_statistics, run_id,
                                                AggregateStats(m.files))
           /\ scan_runs' = CompleteScanRun(started, u.now + 1, run_id, stats)
           /\ clock' = u.now + 2
    /\ UNCHANGED <<violations, pc, args, loc, initialized>>

NextTwo ==
    \/ \E a \in ArgChoices : Invoke(a, [exists |-> FALSE, rows |-> << >>], MaxScansTwo)
    \/ \E tree \in TreesTwo : ScanAllFiles(tree)
    \/ ScanStart
    \/ ScanUpsert
    \/ ScanMarkDeleted
    \/ ScanStatistics
    \/ ScanComplete
    \/ CheckViolations
    \/ \E tree \in TreesTwo : ConcurrentScan(tree)

\* invocations of which one scan may take place during another
SpecTwo == Init /\ [][NextTwo]_vars

-----------------------------------------------------------------------------
(* Properties *)

\* the file_data the upsert_file call of the next step is given
UpsertInput ==
    IF pc = "import_rows" THEN CsvFileData(Head(loc.queue), clock) ELSE Head(loc.queue)

\* the next step is a call of upsert_file
AtUpsert == pc \in {"import_rows", "scan_upsert"}

\* the row upsert_file finds for its input, 0 for none
UpsertExisting == GetFileByPath(files, UpsertInput.file_path)

\* a row with its tracked columns compared against a file_data dict
TrackedColumnsAre(row, fd) ==
    /\ row.layer = fd.layer
    /\ row.domain_entity = fd.domain_entity
    /\ row.file_purpose = fd.file_purpose
    /\ row.key_pattern = fd.key_pattern
    /\ row.dependencies = fd.dependencies
    /\ row.extends_conforms = fd.extends_conforms
    /\ row.concurrency = fd.concurrency
    /\ row.complexity = fd.complexity
    /\ row.notes = fd.notes
    /\ row.file_size_bytes = fd.file_size_bytes
    /\ row.line_count = fd.line_count
    /\ row.last_modified = fd.last_modified
    /\ row.file_hash = fd.file_hash

\* C1: after any sequence of upsert_file and mark_deleted_files calls of
\* serialized runs, no path has two non-deleted rows in files, and no path
\* has two rows at all (upsert_file never inserts a second row for a path
\* that has one, deleted or not).
C1_OneRecordPerPath ==
    /\ \A i, j \in 1..Len(files) :
          (/\ files[i].file_path = files[j].file_path
           /\ files[i].is_deleted = 0
           /\ files[j].is_deleted = 0) => i = j
    /\ \A i, j \in 1..Len(files) :
          files[i].file_path = files[j].file_path => i = j

\* C1 witness: the path of a row flagged deleted has been upserted again,
\* next to another row
C1_Witness ==
    /\ Len(files) >= 2
    /\ \E i \in 1..Len(files) :
          files[i].is_deleted = 1 /\ files[i].last_scanned > files[i].deleted_at

\* C2: an upsert_file call whose input has the fingerprint stored for its
\* path returns 'unchanged', appends nothing to file_history and changes no
\* column of any row of files other than last_scanned of that row.
C2_UnchangedIsIdempotent ==
    [][(/\ AtUpsert
        /\ UpsertExisting # 0
        /\ files[UpsertExisting].file_hash = UpsertInput.file_hash)
       => (/\ loc'.change_type = "unchanged"
           /\ loc'.file_id = UpsertExisting
           /\ file_history' = file_history
           /\ Len(files') = Len(files)
           /\ \A i \in 1..Len(files) :
                 IF i = UpsertExisting
                 THEN [files'[i] EXCEPT !.last_scanned = files[i].last_scanned] = files[i]
                 ELSE files'[i] = files[i])]_vars

\* C2 witness: a second run has found a file with its stored fingerprint
C2_Witness ==
    /\ loc.change_type = "unchanged"
    /\ Len(scan_runs) >= 2
    /\ files[loc.file_id].last_scanned > files[loc.file_id].first_seen
    /\ files[loc.file_id].file_hash # ""

\* C3: an upsert_file call whose input has another fingerprint than the row
\* stored for its path returns 'modified', overwrites the tracked columns of
\* that row with the input, and appends exactly one 'modified' event for the
\* row whose previous_values / new_values hold layer, domain, complexity and
\* line count as they were before and as they are after the update.
C3_ModifiedOverwritesAndLogs ==
    [][(/\ AtUpsert
        /\ UpsertExisting # 0
        /\ files[UpsertExisting].file_hash # UpsertInput.file_hash)
       => (/\ loc'.change_type = "modified"
           /\ loc'.file_id = UpsertExisting
           /\ Len(files') = Len(files)
           /\ TrackedColumnsAre(files'[UpsertExisting], UpsertInput)
           /\ \A i \in 1..Len(files) : i # UpsertExisting => files'[i] = files[i]
           /\ Len(file_history') = Len(file_history) + 1
           /\ SubSeq(file_history', 1, Len(file_history)) = file_history
           /\ LET e == file_history'[Len(file_history')]
              IN  /\ e.file_id = UpsertExisting
                  /\ e.change_type = "modified"
                  /\ e.previous_values = TrackedValues(files[UpsertExisting])
                  /\ e.new_values = TrackedValues(files'[UpsertExisting]))]_vars

\* C3 witness: a scan has found an edited file, and the snapshot of the
\* event shows the change
C3_Witness ==
    /\ loc.change_type = "modified"
    /\ pc \in {"scan_upsert", "scan_mark"}
    /\ file_history # << >>
    /\ LET e == file_history[Len(file_history)]
       IN  /\ e.change_type = "modified"
           /\ e.previous_values # e.new_values
           /\ e.previous_values[1].line_count > 0

\* C4: an upsert_file call for a path without a row inserts exactly one row,
\* appends exactly one 'created' event carrying the new file id, the path,
\* the fingerprint, the line count and the run id of the caller, and returns
\* 'created'.
C4_CreatedInsertsAndLogs ==
    [][(AtUpsert /\ UpsertExisting = 0)
       => (/\ loc'.change_type = "created"
           /\ loc'.file_id = Len(files) + 1
           /\ Len(files') = Len(files) + 1
           /\ SubSeq(files', 1, Len(files)) = files
           /\ files'[Len(files')].id = Len(files) + 1
           /\ files'[Len(files')].file_path = UpsertInput.file_path
           /\ TrackedColumnsAre(files'[Len(files')], UpsertInput)
           /\ Len(file_history') = Len(file_history) + 1
           /\ SubSeq(file_history', 1, Len(file_history)) = file_history
           /\ LET e == file_history'[Len(file_history')]
              IN  /\ e.file_id = Len(files) + 1
                  /\ e.change_type = "created"
                  /\ e.file_path = UpsertInput.file_path
                  /\ e.file_hash = UpsertInput.file_hash
                  /\ e.line_count = UpsertInput.line_count
                  /\ e.scan_run_id = loc.run_id
                  /\ loc.run_id \in 1..Len(scan_runs))]_vars

\* C4 witness: a scan has created a row next to an older one
C4_Witness ==
    /\ loc.change_type = "created"
    /\ pc \in {"scan_upsert", "scan_mark"}
    /\ Len(files) >= 2
    /\ file_history[Len(file_history)].change_type = "created"
    /\ file_history[Len(file_history)].scan_run_id = loc.run_id

\* the 'deleted' events among the events appended by a step, for row i
DeletedEventsAppended(i) ==
    {k \in (Len(file_history) + 1)..Len(file_history') :
        file_history'[k].file_id = i /\ file_history'[k].change_type = "deleted"}

\* C5: mark_deleted_files(scanned_paths, run_id) flags exactly the rows that
\* were not flagged and whose path is not in scanned_paths (every unflagged
\* row when scanned_paths is empty), appends exactly one 'deleted' event per
\* flagged row and nothing else, returns the number of rows flagged, and
\* leaves the rows whose path is in scanned_paths and the rows already
\* flagged unchanged.
C5_MarkDeletedExact ==
    [][pc = "scan_mark"
       => LET InScan(i) == \E k \in 1..Len(loc.scanned_paths) :
                              loc.scanned_paths[k] = files[i].file_path
              ToFlag == {i \in 1..Len(files) : files[i].is_deleted = 0 /\ ~InScan(i)}
          IN  /\ Len(files') = Len(files)
              /\ \A i \in 1..Len(files) :
                    IF i \in ToFlag
                    THEN /\ files'[i].is_deleted = 1
                         /\ files'[i].deleted_at # NullInt
                         /\ [files'[i] EXCEPT !.is_deleted = 0,
                                              !.deleted_at = files[i].deleted_at]
                              = files[i]
                         /\ Cardinality(DeletedEventsAppended(i)) = 1
                    ELSE /\ files'[i] = files[i]
                         /\ DeletedEventsAppended(i) = {}
              /\ SubSeq(file_history', 1, Len(file_history)) = file_history
              /\ Len(file_history') = Len(file_history) + Cardinality(ToFlag)
              /\ \A k \in (Len(file_history) + 1)..Len(file_history') :
                    /\ file_history'[k].change_type = "deleted"
                    /\ file_history'[k].scan_run_id = loc.run_id
                    /\ file_history'[k].file_path
                         = files[file_history'[k].file_id].file_path
              /\ loc'.stats.deleted = Cardinality(ToFlag)]_vars

\* C5 witness: mark_deleted_files was called with no scanned path and
\* flagged a row, next to a row that was flagged before
C5_Witness ==
    /\ pc = "scan_stats"
    /\ loc.scanned_paths = << >>
    /\ loc.stats.deleted >= 1
    /\ \E i \in 1..Len(files) :
          files[i].is_deleted = 1 /\ files[i].deleted_at < clock - 1

\* the path of row i is in the path set of the scan that is at its
\* mark_deleted_files call
InScannedPaths(i) ==
    \E k \in 1..Len(loc.scanned_paths) : loc.scanned_paths[k] = files[i].file_path

\* row i was reconciled by the run before the current one: its path was in
\* the path set of that run
ReconciledByPreviousRun(i) ==
    /\ loc.run_id > 1
    /\ files[i].last_scanned >= scan_runs[loc.run_id - 1].started_at

\* the events the current run has written for row i, after the step
EventsOfRunAfterStep(i) ==
    {k \in 1..Len(file_history') :
        file_history'[k].file_id = i /\ file_history'[k].scan_run_id = loc.run_id}

\* C6, first half: a row whose path is absent from the path set of a scan
\* is flagged deleted after the scan
C6_AbsentIsFlagged ==
    [][pc = "scan_mark"
       => \A i \in 1..Len(files) : ~InScannedPaths(i) => files'[i].is_deleted = 1]_vars

\* C6, second half: a scan appends at most one event for a row whose path
\* is in its path set, a reappearing one included
C6_PresentAtMostOneEvent ==
    [][pc = "scan_mark"
       => \A i \in 1..Len(files) :
             InScannedPaths(i) => Cardinality(EventsOfRunAfterStep(i)) <= 1]_vars

\* C6: in every scan, a row whose path is absent from the path set of the
\* scan is flagged deleted, with exactly one 'deleted' event appended in that
\* scan if the path was in the path set of the run before and none if it
\* stays absent; and the scan appends at most one event for a row whose path
\* is in its path set.
C6_DeletionDetectionComplete ==
    [][pc = "scan_mark"
       => \A i \in 1..Len(files) :
             IF InScannedPaths(i)
             THEN Cardinality(EventsOfRunAfterStep(i)) <= 1
             ELSE /\ files'[i].is_deleted = 1
                  /\ Cardinality(DeletedEventsAppended(i))
                       = IF ReconciledByPreviousRun(i) THEN 1 ELSE 0]_vars

\* C7: in a scan in which the extraction of a file that is on disk fails,
\* mark_deleted_files does not flag the row stored for the path of that
\* file and writes no 'deleted' event for it.
C7_NoFalseDeletion ==
    [][pc = "scan_mark"
       => \A i \in 1..Len(files) :
             (/\ files[i].file_path \in Paths
              /\ disk[files[i].file_path] # Absent
              /\ Unreadable(disk[files[i].file_path]))
             => (/\ files'[i].is_deleted = files[i].is_deleted
                 /\ DeletedEventsAppended(i) = {})]_vars

\* C8: in every step of every operation the rows of file_history before
\* the step are a prefix of the rows after it.
C8_HistoryAppendOnly ==
    [][/\ Len(file_history') >= Len(file_history)
       /\ SubSeq(file_history', 1, Len(file_history)) = file_history]_vars

\* C8 witness: the log holds events of the three kinds, written by
\* upsert_file and mark_deleted_files over several runs
C8_Witness ==
    /\ \A kind \in {"created", "modified", "deleted"} :
          \E k \in 1..Len(file_history) : file_history[k].change_type = kind
    /\ Len(scan_statistics) >= 2
    /\ pc = "idle"

\* the events of row i, as indices of file_history
EventsOf(i) == {k \in 1..Len(file_history) : file_history[k].file_id = i}

\* the latest of a non-empty set of indices
Latest(S) == CHOOSE k \in S : \A j \in S : j <= k

\* C9, fingerprint: the latest 'created' or 'modified' event of a row holds
\* the fingerprint and line count of the row
C9_LatestContentEvent ==
    \A i \in 1..Len(files) :
        LET ev == {k \in EventsOf(i) :
                      file_history[k].change_type \in {"created", "modified"}}
        IN  /\ ev # {}
            /\ file_history[Latest(ev)].file_hash = files[i].file_hash
            /\ file_history[Latest(ev)].line_count = files[i].line_count

\* C9, snapshot: the new_values of the latest 'modified' event of a row are
\* the layer, domain, complexity and line count of the row
C9_LatestSnapshot ==
    \A i \in 1..Len(files) :
        LET ev == {k \in EventsOf(i) : file_history[k].change_type = "modified"}
        IN  ev # {} => file_history[Latest(ev)].new_values = TrackedValues(files[i])

\* C9, deletion: a row is flagged deleted exactly if its latest event is
\* 'deleted'
C9_DeletedIffLatestDeleted ==
    \A i \in 1..Len(files) :
        /\ EventsOf(i) # {}
        /\ files[i].is_deleted = 1
             <=> file_history[Latest(EventsOf(i))].change_type = "deleted"

\* C9: in every reachable state the events of a row reconstruct the row:
\* fingerprint and line count from its latest 'created' or 'modified' event,
\* layer, domain, complexity and line count from the new_values of its
\* latest 'modified' event, and the deletion flag from whether its latest
\* event is 'deleted'.
C9_HistoryReconstructsRecord ==
    /\ C9_LatestContentEvent
    /\ C9_LatestSnapshot
    /\ C9_DeletedIffLatestDeleted

\* C10, state: no (file id, violation kind) pair has two open rows
C10_OneOpenPerPair ==
    \A i, j \in 1..Len(violations) :
        (/\ violations[i].file_id = violations[j].file_id
         /\ violations[i].violation_type = violations[j].violation_type
         /\ violations[i].status = "open"
         /\ violations[j].status = "open") => i = j

\* C10: after any sequence of scans and rule runs no (file id, violation
\* kind) pair has two open rows, and a rule run leaves the rows it finds
\* untouched and inserts nothing for a pair that has an open row.
C10_OpenViolationsDeduplicated ==
    /\ []C10_OneOpenPerPair
    /\ [][pc = "check"
          => /\ Len(violations') >= Len(violations)
             /\ SubSeq(violations', 1, Len(violations)) = violations
             /\ \A k \in (Len(violations) + 1)..Len(violations') :
                   ~\E i \in 1..Len(violations) :
                       /\ violations[i].file_id = violations'[k].file_id
                       /\ violations[i].violation_type = violations'[k].violation_type
                       /\ violations[i].status = "open"]_vars

\* C10 witness: a rule run has inserted a row for a pair whose earlier row
\* was resolved, while another violation of the same file was open and
\* detected again
C10_Witness ==
    \E r, o, n \in 1..Len(violations) :
        /\ r < n /\ o < n
        /\ violations[r].status = "resolved"
        /\ violations[n].status = "open"
        /\ violations[o].status = "open"
        /\ violations[r].file_id = violations[n].file_id
        /\ violations[r].violation_type = violations[n].violation_type
        /\ violations[o].file_id = violations[n].file_id
        /\ violations[o].violation_type # violations[n].violation_type

\* the open rows of a violations table, as a set
OpenViolations(viol) == {viol[i] : i \in {k \in 1..Len(viol) : viol[k].status = "open"}}

\* no (file id, violation kind) pair has two open rows in the table
NoOpenDuplicates(viol) ==
    \A i, j \in 1..Len(viol) :
        (/\ viol[i].file_id = viol[j].file_id
         /\ viol[i].violation_type = viol[j].violation_type
         /\ viol[i].status = "open"
         /\ viol[j].status = "open") => i = j

\* C11: when check_all_violations has run, a second run over the same files
\* table leaves the set of open violations as the first run left it, and
\* the table holds no two open rows for one (file id, violation kind) pair.
C11_RuleIdempotence ==
    [][pc = "check"
       => LET second == CheckAllViolations(files', violations')
          IN  /\ OpenViolations(second) = OpenViolations(violations')
              /\ NoOpenDuplicates(second)]_vars

\* C11 witness: a check-only invocation is at its rule run, the files table
\* is as the rule run before left it, and every violation the rules detect
\* is open in the table already
C11_Witness ==
    /\ pc = "check"
    /\ ~args.scan /\ ~args.init
    /\ Len(DetectedViolations(files)) >= 2
    /\ OpenViolations(violations) # {}
    /\ CheckAllViolations(files, violations) = violations

\* C12: no step of the pipeline (import, scan, deletion finalization,
\* statistics, run completion, rule run) changes or removes a row of table
\* violations: status, severity and the other columns of every row stay as
\* they are.
C12_ViolationsNeverResolved ==
    [][/\ Len(violations') >= Len(violations)
       /\ \A i \in 1..Len(violations) : violations'[i] = violations[i]]_vars

\* C12 witness: after later scans and rule runs, a violation is open for a
\* row that is flagged deleted and another for a row that has become
\* compliant
C12_Witness ==
    /\ pc = "idle"
    /\ \E v \in 1..Len(violations) :
          /\ violations[v].status = "open"
          /\ files[violations[v].file_id].is_deleted = 1
    /\ \E v \in 1..Len(violations) :
          /\ violations[v].status = "open"
          /\ violations[v].violation_type = "missing_sendable"
          /\ files[violations[v].file_id].is_deleted = 0
          /\ Like(files[violations[v].file_id].concurrency, "Sendable")
    /\ Len(DetectedViolations(files)) = 0

\* table viol holds an open row of the kind and severity for the file
HasOpenViolation(viol, file_id, kind, severity) ==
    \E v \in 1..Len(viol) :
        /\ viol[v].file_id = file_id
        /\ viol[v].violation_type = kind
        /\ viol[v].severity = severity
        /\ viol[v].status = "open"

\* a rule run over fs emits a violation of the kind for the file
Emits(fs, file_id, kind) ==
    \E k \in 1..Len(DetectedViolations(fs)) :
        /\ DetectedViolations(fs)[k].file_id = file_id
        /\ DetectedViolations(fs)[k].violation_type = kind

\* the roles the thread-safety rule names
ThreadSafeRoles == {"Coordinator", "Repository", "Service-Progress", "Service-Validation"}

\* the concurrency field of the row declares the marker
DeclaresMarker(row, marker) ==
    /\ row.concurrency # Null
    /\ row.concurrency \in
          (IF marker = "Sendable"
           THEN {"Sendable + @MainActor", "@unchecked Sendable", "Sendable"}
           ELSE {"Sendable + @MainActor", "@MainActor"})

\* C13, emitted: after a rule run every non-deleted row of a thread-safe
\* role whose concurrency field declares no Sendable marker has an open
\* medium 'missing_sendable' violation
C13_UnmarkedIsFlagged ==
    [][pc = "check"
       => \A i \in 1..Len(files) :
             (/\ files[i].is_deleted = 0
              /\ files[i].layer \in ThreadSafeRoles
              /\ ~DeclaresMarker(files[i], "Sendable"))
             => HasOpenViolation(violations', files[i].id, "missing_sendable",
                                 "medium")]_vars

\* C13, not emitted: a rule run emits no 'missing_sendable' violation for a
\* row that declares the marker, has another role, or is flagged deleted
C13_OthersNotFlagged ==
    [][pc = "check"
       => \A i \in 1..Len(files) :
             (\/ files[i].is_deleted = 1
              \/ files[i].layer \notin ThreadSafeRoles
              \/ DeclaresMarker(files[i], "Sendable"))
             => ~Emits(files, files[i].id, "missing_sendable")]_vars

\* C13: after check_all_violations every non-deleted row whose layer is
\* Coordinator, Repository, Service-Progress or Service-Validation and whose
\* concurrency field declares no Sendable marker has an open medium
\* 'missing_sendable' violation, and the run emits none for a row that
\* declares the marker, has another layer, or is flagged deleted.
C13_ThreadSafetyRule ==
    /\ C13_UnmarkedIsFlagged
    /\ C13_OthersNotFlagged

\* C14: after check_all_violations every non-deleted row whose layer is
\* Repository, whose path has no /Core/ directory and whose
\* extends_conforms field is NULL or does not name BaseRepository has an
\* open high 'missing_baserepository' violation, and the run emits none for
\* a row under /Core/, a row that names BaseRepository, a row of another
\* layer, or a row flagged deleted.
C14_BaseAbstractionRule ==
    [][pc = "check"
       => \A i \in 1..Len(files) :
             IF /\ files[i].is_deleted = 0
                /\ files[i].layer = "Repository"
                /\ ~LikeCoreDir(files[i].file_path)
                /\ (\/ files[i].extends_conforms = Null
                    \/ files[i].extends_conforms \notin
                          {"BaseRepository<Goal>, Sendable", "BaseRepository<Goal>"})
             THEN HasOpenViolation(violations', files[i].id, "missing_baserepository",
                                   "high")
             ELSE ~Emits(files, files[i].id, "missing_baserepository")]_vars

\* C14 witness: a rule run has given the violation to a Repository row
\* outside /Core/ that does not name BaseRepository and none to a
\* non-deleted Repository row under /Core/ that does not name it either
C14_Witness ==
    /\ pc = "idle"
    /\ \E i \in 1..Len(files) :
          /\ files[i].layer = "Repository"
          /\ ~LikeCoreDir(files[i].file_path)
          /\ files[i].is_deleted = 0
          /\ HasOpenViolation(violations, files[i].id, "missing_baserepository", "high")
    /\ \E i \in 1..Len(files) :
          /\ files[i].layer = "Repository"
          /\ LikeCoreDir(files[i].file_path)
          /\ files[i].is_deleted = 0
          /\ files[i].extends_conforms = ""
          /\ ~\E v \in 1..Len(violations) :
                /\ violations[v].file_id = files[i].id
                /\ violations[v].violation_type = "missing_baserepository"

\* the layers of the view-model category
ViewModelRoles == {"ViewModel-Form", "ViewModel-List", "ViewModel-LLM", "ViewModel-Utility"}

\* C15, emitted: after a rule run every non-deleted view-model row whose
\* concurrency field declares no @MainActor marker has an open high
\* 'missing_mainactor' violation
C15_UnmarkedIsFlagged ==
    [][pc = "check"
       => \A i \in 1..Len(files) :
             (/\ files[i].is_deleted = 0
              /\ files[i].layer \in ViewModelRoles
              /\ ~DeclaresMarker(files[i], "@MainActor"))
             => HasOpenViolation(violations', files[i].id, "missing_mainactor",
                                 "high")]_vars

\* C15, not emitted: a rule run emits no 'missing_mainactor' violation for
\* a view-model row that declares the marker, a row of another layer, or a
\* row flagged deleted
C15_OthersNotFlagged ==
    [][pc = "check"
       => \A i \in 1..Len(files) :
             (\/ files[i].is_deleted = 1
              \/ files[i].layer \notin ViewModelRoles
              \/ DeclaresMarker(files[i], "@MainActor"))
             => ~Emits(files, files[i].id, "missing_mainactor")]_vars

\* C15: after check_all_violations every non-deleted row of a view-model
\* layer whose concurrency field declares no @MainActor marker has an open
\* high 'missing_mainactor' violation, and the run emits none for a
\* view-model row that declares the marker, a row of another layer, or a
\* row flagged deleted.
C15_MainThreadRule ==
    /\ C15_UnmarkedIsFlagged
    /\ C15_OthersNotFlagged

\* the files of a tree whose analysis succeeds
Analysable(tree) == {p \in Paths : tree[p] # Absent /\ ~Unreadable(tree[p])}

\* the files of a tree whose analysis raises
Failing(tree) == {p \in Paths : tree[p] # Absent /\ Unreadable(tree[p])}

\* the outcome upsert_file has for a file of the tree, from the stored row
\* of its path alone
OutcomeFor(path) ==
    IF \A i \in 1..Len(files) : files[i].file_path # path THEN "created"
    ELSE IF \E i \in 1..Len(files) :
               files[i].file_path = path /\ files[i].file_hash # Sha256(disk[path])
    THEN "modified"
    ELSE "unchanged"

\* C16: scan_all_files returns the metadata of exactly the files whose
\* analysis succeeds, a failing file among them or not, and the scan
\* reconciles each of them in this run with the outcome that the stored row
\* of its own path and its own content determine.
C16_ExtractionFailureIsolated ==
    [][/\ pc = "scan_files"
          => /\ {loc'.queue[k].file_path : k \in 1..Len(loc'.queue)} = Analysable(disk')
             /\ Len(loc'.queue) = Cardinality(Analysable(disk'))
             /\ \A k \in 1..Len(loc'.queue) :
                   loc'.queue[k].file_hash = Sha256(disk'[loc'.queue[k].file_path])
       /\ pc = "scan_upsert"
          => /\ loc'.change_type = OutcomeFor(Head(loc.queue).file_path)
             /\ \E i \in 1..Len(files') :
                   /\ files'[i].id = loc'.file_id
                   /\ files'[i].file_path = Head(loc.queue).file_path
                   /\ files'[i].file_hash = Sha256(disk[Head(loc.queue).file_path])
                   /\ files'[i].last_scanned >= scan_runs[loc.run_id].started_at]_vars

\* C16 witness: the analysis of one file of the tree has failed and the
\* scan has reconciled the other file, which it had stored before
C16_Witness ==
    /\ pc = "scan_mark"
    /\ Failing(disk) = {PathRepo}
    /\ loc.scanned_paths = <<PathVM>>
    /\ loc.change_type = "unchanged"
    /\ loc.stats.scanned = 1

\* C17: when a scan run is finalized, its errors_encountered counter is the
\* number of files of the scan whose analysis failed and were skipped.
C17_ErrorsCounted ==
    [][pc = "scan_complete"
       => /\ scan_runs'[loc.run_id].completed_at # NullInt
          /\ scan_runs'[loc.run_id].errors_encountered
               = Cardinality(Failing(disk))]_vars

\* C18, no partial change: a failing upsert_file leaves files and
\* file_history as they were
C18_NoPartialCommit ==
    [][ScanUpsertFails => UNCHANGED <<files, file_history>>]_vars

\* C18, the run goes on: after a failing upsert_file the scan is at its
\* next file, or at mark_deleted_files, with the failure counted
C18_ScanContinues ==
    [][ScanUpsertFails
       => /\ pc' = (IF Tail(loc.queue) = << >> THEN "scan_mark" ELSE "scan_upsert")
          /\ loc'.queue = Tail(loc.queue)
          /\ loc'.run_id = loc.run_id
          /\ loc'.stats.errors = loc.stats.errors + 1]_vars

\* C18, finalized: no invocation ends with a run it opened left open
C18_RunFinalized ==
    pc = "idle" => \A r \in 1..Len(scan_runs) : scan_runs[r].completed_at # NullInt

\* C18: when upsert_file fails to persist a record during a scan, nothing
\* of that record is committed, the scan goes on with the files that remain
\* and counts the failure, and the run is finalized.
C18_StoreFailureIsolated ==
    /\ C18_NoPartialCommit
    /\ C18_ScanContinues
    /\ []C18_RunFinalized

\* C19, store: every upsert_file of a scan precedes its mark_deleted_files,
\* which precedes the statistics, which precede complete_scan_run
C19_StoreStagesInOrder ==
    [][/\ pc = "scan_upsert" => pc' \in {"scan_upsert", "scan_mark"}
       /\ pc = "scan_mark" => loc.queue = << >> /\ pc' # "scan_upsert"
       /\ pc = "scan_stats" => pc' = "scan_complete"
       /\ pc = "check" /\ args.scan
            => /\ Len(scan_statistics) > 0
               /\ \A i \in 1..Len(files) :
                     files[i].is_deleted = 0
                     => files[i].last_scanned >= scan_runs[Len(scan_runs)].started_at]_vars

\* C19: in an invocation that scans and checks violations the steps come in
\* the order: every upsert_file, mark_deleted_files, check_all_violations,
\* the statistics, and complete_scan_run last.
C19_PipelineOrder ==
    [][(args.scan /\ args.check_violations)
       => /\ pc = "scan_upsert" => pc' \in {"scan_upsert", "scan_mark"}
          /\ pc = "scan_mark" => pc' = "check"
          /\ pc = "check" => pc' = "scan_stats"
          /\ pc = "scan_stats" => pc' = "scan_complete"
          /\ pc = "scan_complete" => pc' = "idle"]_vars

\* a run is open: started and not completed
OpenRuns == {r \in 1..Len(scan_runs) : scan_runs[r].completed_at = NullInt}

\* C20, scan and import: the events and statistics rows a step appends
\* name the run of the operation, which is open, and the step that
\* completes the operation writes end time, duration and counters
C20_ScanAndImportRuns ==
    [][/\ \A k \in (Len(file_history) + 1)..Len(file_history') :
             /\ file_history'[k].scan_run_id = loc.run_id
             /\ OpenRuns = {loc.run_id}
       /\ \A k \in (Len(scan_statistics) + 1)..Len(scan_statistics') :
             /\ scan_statistics'[k].scan_run_id = loc.run_id
             /\ OpenRuns = {loc.run_id}
       /\ pc \in {"scan_complete", "import_complete"}
            => /\ scan_runs'[loc.run_id].completed_at # NullInt
               /\ scan_runs'[loc.run_id].duration_seconds
                    = scan_runs'[loc.run_id].completed_at - scan_runs[loc.run_id].started_at
               /\ scan_runs'[loc.run_id].files_scanned
                    = (IF pc = "scan_complete" THEN loc.stats.scanned ELSE loc.imported)
       /\ pc \in {"scan_start", "import_start"}
            => /\ Len(scan_runs') = Len(scan_runs) + 1
               /\ OpenRuns = {}]_vars

\* C20, rule run: a rule run opens a run of its own, and the violations it
\* writes are written while that run is open
C20_CheckRun ==
    [][/\ pc = "check" => OpenRuns # {} /\ Len(scan_runs') >= Len(scan_runs)
       /\ violations' # violations => OpenRuns # {}]_vars

\* C20: every scan, import and check-violations operation opens a run of
\* its own in scan_runs at its start and finalizes it with duration and
\* counters at its end, and every history event, statistics row and
\* violation the operation writes is written while that run is open.
C20_EveryOperationHasRun ==
    /\ C20_ScanAndImportRuns
    /\ C20_CheckRun

\* C21: a run row is created with its counters zero and no end time;
\* complete_scan_run changes only the row of its run id; a run is finalized
\* at most once, and a finalized row is never changed again.
C21_RunLifecycle ==
    [][/\ Len(scan_runs') >= Len(scan_runs)
       /\ \A r \in (Len(scan_runs) + 1)..Len(scan_runs') :
             /\ scan_runs'[r].completed_at = NullInt
             /\ scan_runs'[r].duration_seconds = NullInt
             /\ scan_runs'[r].files_scanned = 0
             /\ scan_runs'[r].files_created = 0
             /\ scan_runs'[r].files_modified = 0
             /\ scan_runs'[r].files_deleted = 0
             /\ scan_runs'[r].errors_encountered = 0
       /\ \A r \in 1..Len(scan_runs) :
             /\ scan_runs[r].completed_at # NullInt => scan_runs'[r] = scan_runs[r]
             /\ scan_runs'[r] # scan_runs[r]
                  => /\ r = loc.run_id
                     /\ pc \in {"scan_complete", "import_complete"}
                     /\ scan_runs'[r].completed_at # NullInt]_vars

\* C21 witness: an import run and two scan runs have been finalized, the
\* last one with counters that differ from those of the one before
C21_Witness ==
    /\ pc = "idle"
    /\ Len(scan_runs) >= 3
    /\ \A r \in 1..Len(scan_runs) : scan_runs[r].completed_at # NullInt
    /\ scan_runs[Len(scan_runs)].files_modified = 1
    /\ scan_runs[Len(scan_runs) - 1].files_deleted >= 1
    /\ scan_runs[1].files_created = 5

\* the rows of files that are not flagged deleted, as indices in rowid order
ActiveIds == {i \in 1..Len(files) : files[i].is_deleted = 0}

RECURSIVE SumOver(_, _)
\* the sum of the counts of a distribution map over the keys in S
SumOver(map, S) ==
    IF S = {} THEN 0
    ELSE LET k == CHOOSE x \in S : TRUE IN map[k] + SumOver(map, S \ {k})

RECURSIVE LineSum(_)
\* the sum of the line counts of the rows with the indices in S
LineSum(S) ==
    IF S = {} THEN 0
    ELSE LET i == CHOOSE x \in S : TRUE IN files[i].line_count + LineSum(S \ {i})

\* the largest line count of the non-deleted rows, 0 for none
MaxLineCount ==
    IF ActiveIds = {} THEN 0
    ELSE LET i == CHOOSE x \in ActiveIds :
                     \A j \in ActiveIds : files[j].line_count <= files[x].line_count
         IN  files[i].line_count

\* the first non-deleted row, in rowid order, that has the largest line count
FirstLargest ==
    CHOOSE i \in ActiveIds :
        /\ files[i].line_count = MaxLineCount
        /\ \A j \in ActiveIds : files[j].line_count = MaxLineCount => i <= j

\* a distribution map of a statistics row counts the non-deleted rows by
\* the column, and its counts sum to total_files
DistributionIs(row, map, column) ==
    /\ DOMAIN row[map] = {files[i][column] : i \in ActiveIds}
    /\ \A k \in DOMAIN row[map] :
          row[map][k] = Cardinality({i \in ActiveIds : files[i][column] = k})
    /\ SumOver(row[map], DOMAIN row[map]) = row.total_files

\* the statistics row of a scan, but for its largest file: one row for the
\* run, appended to rows that stay as they are, computed over the
\* non-deleted rows after mark_deleted_files
StatisticsRowIs(row) ==
    /\ Len(scan_statistics') = Len(scan_statistics) + 1
    /\ SubSeq(scan_statistics', 1, Len(scan_statistics)) = scan_statistics
    /\ row.scan_run_id = loc.run_id
    /\ \A k \in 1..Len(scan_statistics) : scan_statistics[k].scan_run_id # loc.run_id
    /\ \A i \in ActiveIds : files[i].last_scanned >= scan_runs[loc.run_id].started_at
    /\ row.total_files = Cardinality(ActiveIds)
    /\ DistributionIs(row, "files_by_layer", "layer")
    /\ DistributionIs(row, "files_by_domain", "domain_entity")
    /\ DistributionIs(row, "files_by_complexity", "complexity")
    /\ DistributionIs(row, "files_by_concurrency", "concurrency")
    /\ row.total_lines = LineSum(ActiveIds)
    /\ {row.complex_files_list[k] : k \in 1..Len(row.complex_files_list)}
          = {files[i].file_path : i \in {j \in ActiveIds : files[j].complexity = "Complex"}}
    /\ row.complex_files_count = Len(row.complex_files_list)
    /\ Len(row.complex_files_list)
          = Cardinality({j \in ActiveIds : files[j].complexity = "Complex"})

\* C22 as stated: statistics are written exactly once per scan run and never
\* updated, over the non-deleted rows after mark_deleted_files: total_files,
\* the four distribution maps, total_lines, the complex-file list and its
\* count, and the largest file, which is the first non-deleted row in rowid
\* order that has the largest line count.
C22_StatisticsLargestAlways ==
    [][IF pc = "scan_stats"
       THEN LET row == scan_statistics'[Len(scan_statistics')]
            IN  /\ StatisticsRowIs(row)
                /\ ActiveIds # {}
                     => /\ row.largest_file = files[FirstLargest].file_path
                        /\ row.largest_file_lines = MaxLineCount
       ELSE scan_statistics' = scan_statistics]_vars

\* C22, amended: as above, with the largest file recorded only when a
\* non-deleted row has a line count above zero; when all line counts are
\* zero the row records no largest file and largest_file_lines 0.
C22_StatisticsOfSnapshot ==
    [][IF pc = "scan_stats"
       THEN LET row == scan_statistics'[Len(scan_statistics')]
            IN  /\ StatisticsRowIs(row)
                /\ IF MaxLineCount > 0
                   THEN /\ row.largest_file = files[FirstLargest].file_path
                        /\ row.largest_file_lines = MaxLineCount
                   ELSE /\ row.largest_file = Null
                        /\ row.largest_file_lines = 0
       ELSE scan_statistics' = scan_statistics]_vars

\* C22 witness: a scan has saved the statistics of a snapshot with a
\* deleted row and two non-deleted rows of equal line count, and recorded
\* the one with the lower rowid as the largest file
C22_Witness ==
    /\ pc = "scan_complete"
    /\ Cardinality(ActiveIds) = 2
    /\ Len(files) > 2
    /\ \A i \in ActiveIds : files[i].line_count = 200
    /\ scan_statistics[Len(scan_statistics)].scan_run_id = loc.run_id
    /\ scan_statistics[Len(scan_statistics)].largest_file = files[FirstLargest].file_path
    /\ \E j \in ActiveIds : j > FirstLargest
    /\ scan_statistics[Len(scan_statistics)].total_lines = 400

\* the tree of the end-to-end scenarios: A, a view of 50 non-blank lines;
\* B, a coordinator of 200 lines without a concurrency marker; C, a model
\* of 500 lines
TreeABC ==
    [p \in Paths |->
        IF p = PathViewA THEN "plain50"
        ELSE IF p = PathCoord THEN "coord200"
        ELSE IF p = PathModelC THEN "big500"
        ELSE Absent]

\* the index of the row stored for a path
RowOf(fs, path) == CHOOSE i \in 1..Len(fs) : fs[i].file_path = path

\* C23: the first invocation scans the tree of A, B and C into an empty
\* store and runs the rule engine.  After it there are exactly 3 rows, none
\* deleted, each with exactly one history event, a 'created' one; the
\* complexities are Simple, Medium and Complex; the run has the counters
\* scanned 3, created 3, modified 0, deleted 0; and table violations holds
\* exactly one row: an open medium 'missing_sendable' violation of B.
C23_FirstScanEndToEnd ==
    [][(pc = "check" /\ args.scan /\ Len(scan_runs) = 1 /\ disk = TreeABC)
       => /\ Len(files') = 3
          /\ {files'[i].file_path : i \in 1..3} = {PathViewA, PathCoord, PathModelC}
          /\ \A i \in 1..3 : files'[i].is_deleted = 0
          /\ files'[RowOf(files', PathViewA)].complexity = "Simple"
          /\ files'[RowOf(files', PathCoord)].complexity = "Medium"
          /\ files'[RowOf(files', PathModelC)].complexity = "Complex"
          /\ files'[RowOf(files', PathCoord)].layer = "Coordinator"
          /\ Len(file_history') = 3
          /\ \A i \in 1..3 :
                \E k \in 1..3 : /\ file_history'[k].file_id = files'[i].id
                                /\ file_history'[k].change_type = "created"
                                /\ file_history'[k].scan_run_id = 1
          /\ scan_runs'[1].files_scanned = 3
          /\ scan_runs'[1].files_created = 3
          /\ scan_runs'[1].files_modified = 0
          /\ scan_runs'[1].files_deleted = 0
          /\ Len(violations') = 1
          /\ violations'[1].file_id = files'[RowOf(files', PathCoord)].id
          /\ violations'[1].violation_type = "missing_sendable"
          /\ violations'[1].severity = "medium"
          /\ violations'[1].status = "open"]_vars

\* C23 witness: the first invocation has scanned A, B and C and run the
\* rule engine
C23_Witness ==
    /\ pc = "idle"
    /\ Len(scan_runs) = 1
    /\ scan_runs[1].files_created = 3
    /\ disk = TreeABC
    /\ Len(violations) = 1
    /\ Len(scan_statistics) = 1

\* the tree of A, B and C after A's content alone was edited
TreeABCEdited == [TreeABC EXCEPT ![PathViewA] = "safe200"]

\* the first run scanned the tree of A, B and C into an empty store
FirstRunScannedABC ==
    /\ Len(file_history) >= 3
    /\ scan_runs[1].files_scanned = 3
    /\ scan_runs[1].files_created = 3
    /\ \A k \in 1..3 :
          /\ file_history[k].scan_run_id = 1
          /\ file_history[k].change_type = "created"
          /\ file_history[k].file_path \in {PathViewA, PathCoord, PathModelC}
          /\ file_history[k].file_hash = Sha256(TreeABC[file_history[k].file_path])

\* C24: when the second run scans the tree of A, B and C after only A was
\* edited, it appends exactly one history event, a 'modified' event of A
\* whose snapshot holds A's old and new line count, leaves the rows of B
\* and C as they were but for last_scanned, flags no row deleted, and is
\* finalized with scanned 3, created 0, modified 1, deleted 0.
C24_RescanAfterEdit ==
    [][(/\ pc = "scan_complete"
        /\ loc.run_id = 2
        /\ FirstRunScannedABC
        /\ disk = TreeABCEdited)
       => /\ Len(file_history) = 4
          /\ file_history[4].change_type = "modified"
          /\ file_history[4].file_path = PathViewA
          /\ file_history[4].scan_run_id = 2
          /\ file_history[4].previous_values[1].line_count = 50
          /\ file_history[4].new_values[1].line_count = 200
          /\ Len(files) = 3
          /\ \A i \in 1..3 : files[i].is_deleted = 0
          /\ \A p \in {PathCoord, PathModelC} :
                /\ files[RowOf(files, p)].file_hash = Sha256(TreeABC[p])
                /\ files[RowOf(files, p)].last_scanned > files[RowOf(files, p)].first_seen
          /\ files[RowOf(files, PathViewA)].line_count = 200
          /\ scan_runs'[2].files_scanned = 3
          /\ scan_runs'[2].files_created = 0
          /\ scan_runs'[2].files_modified = 1
          /\ scan_runs'[2].files_deleted = 0
          /\ scan_runs'[2].completed_at # NullInt]_vars

\* C24 witness: the second run has scanned the edited tree and is finalized
C24_Witness ==
    /\ pc \in {"idle", "check"}
    /\ Len(scan_runs) = 2
    /\ FirstRunScannedABC
    /\ disk = TreeABCEdited
    /\ scan_runs[2].files_modified = 1
    /\ scan_runs[2].completed_at # NullInt

\* C25, one direction: after the deletions of a scan are finalized every
\* row whose path was not in the path set of the scan is flagged deleted
C25_AbsentIsDeleted ==
    [][pc = "scan_mark"
       => \A i \in 1..Len(files) : ~InScannedPaths(i) => files'[i].is_deleted = 1]_vars

\* C25: after every scan, when all files are reconciled and the deletions
\* finalized, a row is flagged deleted exactly if its path was not in the
\* path set of the scan; a row that was flagged in an earlier scan and whose
\* path is in the path set again is not flagged, and is among the rows the
\* statistics of the scan count.
C25_DeletedIffAbsentFromScan ==
    [][/\ pc = "scan_mark"
          => \A i \in 1..Len(files) :
                files'[i].is_deleted = 1 <=> ~InScannedPaths(i)
       /\ pc = "scan_stats"
          => scan_statistics'[Len(scan_statistics')].total_files
               = Cardinality({i \in 1..Len(files) :
                                 files[i].last_scanned
                                   >= scan_runs[loc.run_id].started_at})]_vars

\* the events a step appends to file_history
AppendedEvents ==
    [k \in 1..(Len(file_history') - Len(file_history)) |->
        file_history'[Len(file_history) + k]]

\* C26: the import seeds each row of the CSV as a new row with an empty
\* fingerprint and one 'created' event; the first scan that finds a file at
\* an imported path adds no row, returns 'modified', stores the computed
\* fingerprint and appends exactly one 'modified' event; a scan that finds
\* the content the row holds returns 'unchanged' and appends nothing.
C26_ImportThenFirstScan ==
    [][/\ pc = "import_rows"
          => /\ Len(files') = Len(files) + 1
             /\ files'[Len(files')].file_path = Head(loc.queue).file_path
             /\ files'[Len(files')].file_hash = ""
             /\ Len(AppendedEvents) = 1
             /\ AppendedEvents[1].change_type = "created"
             /\ AppendedEvents[1].file_id = files'[Len(files')].id
       /\ (pc = "scan_upsert" /\ UpsertExisting # 0)
          => /\ Len(files') = Len(files)
             /\ loc'.file_id = UpsertExisting
             /\ files'[UpsertExisting].file_hash = Sha256(disk[Head(loc.queue).file_path])
             /\ IF files[UpsertExisting].file_hash = ""
                THEN /\ loc'.change_type = "modified"
                     /\ Len(AppendedEvents) = 1
                     /\ AppendedEvents[1].change_type = "modified"
                     /\ AppendedEvents[1].file_id = UpsertExisting
                ELSE files[UpsertExisting].file_hash
                       = Sha256(disk[Head(loc.queue).file_path])
                     => /\ loc'.change_type = "unchanged"
                        /\ Len(AppendedEvents) = 0]_vars

\* C26 witness: the row of an imported path was found by the scan after
\* the import and again, with the same content, by the scan after that
C26_Witness ==
    /\ pc = "scan_mark"
    /\ loc.change_type = "unchanged"
    /\ loc.run_id = 3
    /\ loc.file_id = 1
    /\ files[1].file_path = RowRepo.file_path
    /\ files[1].file_hash # ""
    /\ {k \in 1..Len(file_history) : file_history[k].file_id = 1} = {1, 6}
    /\ file_history[1].change_type = "created"
    /\ file_history[1].file_hash = ""
    /\ file_history[6].change_type = "modified"
    /\ file_history[6].scan_run_id = 2

\* the file of the path is in the tree and scan_all_files can analyse it
OnDisk(path) == path \in Paths /\ disk[path] # Absent /\ ~Unreadable(disk[path])

\* mark_deleted_files flags the row in this step
NewlyFlagged(i) == files[i].is_deleted = 0 /\ files'[i].is_deleted = 1

\* C27: mark_deleted_files flags every non-deleted row whose path is not in
\* the path set of its own run, whichever run wrote the row (no lock keeps a
\* second run from reconciling in between); it flags the row of a file that
\* is in the tree only when a run that started later has written to the
\* store before it, which no serial execution does.
C27_SingleWriter ==
    [][(pc = "scan_mark" /\ pc' = "scan_stats")
       => /\ \A i \in 1..Len(files) :
                /\ NewlyFlagged(i) <=> /\ files[i].is_deleted = 0
                                       /\ ~InScannedPaths(i)
                /\ NewlyFlagged(i)
                      => \E k \in (Len(file_history) + 1)..Len(file_history') :
                           /\ file_history'[k].file_id = i
                           /\ file_history'[k].change_type = "deleted"
                           /\ file_history'[k].scan_run_id = loc.run_id
          /\ (\E i \in 1..Len(files) : NewlyFlagged(i) /\ OnDisk(files[i].file_path))
                => Len(scan_runs) > loc.run_id]_vars

\* C27 witness: run 1 scanned a tree without the file, run 2 created its
\* row, and mark_deleted_files of run 1 has flagged that row deleted
C27_Witness ==
    /\ pc = "scan_stats"
    /\ loc.run_id = 1
    /\ Len(scan_runs) = 2
    /\ \E i \in 1..Len(files) :
          /\ files[i].file_path = PathRepo
          /\ OnDisk(PathRepo)
          /\ files[i].is_deleted = 1
          /\ \E c, d \in 1..Len(file_history) :
                /\ c < d
                /\ file_history[c].file_id = i
                /\ file_history[c].change_type = "created"
                /\ file_history[c].scan_run_id = 2
                /\ file_history[d].file_id = i
                /\ file_history[d].change_type = "deleted"
                /\ file_history[d].scan_run_id = 1

\* C28: check_all_violations changes none of files, file_history, scan_runs
\* and scan_statistics; computing and saving the statistics changes none of
\* files, file_history and violations; upsert_file and mark_deleted_files
\* change none of violations, scan_statistics and scan_runs.
C28_FrameConditions ==
    [][/\ pc = "check"
          => UNCHANGED <<files, file_history, scan_runs, scan_statistics>>
       /\ pc = "scan_stats"
          => UNCHANGED <<files, file_history, violations>>
       /\ pc \in {"import_rows", "scan_upsert", "scan_mark"}
          => UNCHANGED <<violations, scan_statistics, scan_runs>>]_vars

\* C28 witness: the rule engine has just added a violation to a store on
\* which upsert_file, mark_deleted_files and save_statistics have written
C28_Witness ==
    /\ pc = "idle"
    /\ violations # << >>
    /\ \E v \in 1..Len(violations) : violations[v].status = "open"
    /\ scan_statistics # << >>
    /\ \E i \in 1..Len(files) : files[i].is_deleted = 1
    /\ \E k \in 1..Len(file_history) : file_history[k].change_type = "modified"

\* C29: when start_scan_run fails at the beginning of a scan (the step opens
\* no run), the invocation ends there with files and file_history as they
\* were; and files and file_history change only in steps of a run that is
\* open, so the scan that failed to open its run writes neither.
C29_LedgerFailureIsFatal ==
    [][/\ (pc = "scan_start" /\ scan_runs' = scan_runs)
          => /\ pc' = "idle"
             /\ args' = NoArgs
             /\ loc' = NoLocals
             /\ UNCHANGED <<files, file_history>>
       /\ (files' # files \/ file_history' # file_history)
          => /\ loc.run_id \in 1..Len(scan_runs)
             /\ scan_runs[loc.run_id].completed_at = NullInt
             /\ UNCHANGED scan_runs]_vars

\* C29 witness: after a complete scan the file was edited, the next scan
\* failed to open its run, and the row still holds the old fingerprint
C29_Witness ==
    /\ pc = "idle"
    /\ scan_runs # << >>
    /\ \A r \in 1..Len(scan_runs) : scan_runs[r].completed_at # NullInt
    /\ \E i \in 1..Len(files) :
          /\ files[i].is_deleted = 0
          /\ OnDisk(files[i].file_path)
          /\ files[i].file_hash \notin {"", Sha256(disk[files[i].file_path])}

\* the bucket of a count of non-blank lines
Bucket(n) ==
    IF n < 150 THEN "Simple"
    ELSE IF n < 400 THEN "Medium"
    ELSE "Complex"

\* the file_data analyze_file returned, and the rows written from them
Analysed ==
    {loc.queue[k] : k \in 1..Len(loc.queue)}
       \cup {files[i] : i \in {j \in 1..Len(files) : files[j].file_hash # ""}}

\* C30: analyze_file counts the non-blank lines only and assigns Simple
\* below 150, Medium from 150 to 399 and Complex from 400: 149 is Simple,
\* 150, 151 and 399 are Medium, 400 and 401 are Complex.
C30_ComplexityBuckets ==
    /\ \A n \in 0..450 : Complexity(n) = Bucket(n)
    /\ Complexity(149) = "Simple"
    /\ Complexity(150) = "Medium"
    /\ Complexity(151) = "Medium"
    /\ Complexity(399) = "Medium"
    /\ Complexity(400) = "Complex"
    /\ Complexity(401) = "Complex"
    /\ pc \notin {"import_start", "import_rows"}
       => \A f \in Analysed :
             /\ f.complexity = Bucket(f.line_count)
             /\ \A c \in Contents :
                   f.file_hash = Sha256(c)
                      => /\ f.line_count = Text(c).nonblank
                         /\ c = "n149" => f.complexity = "Simple"
                         /\ c \in {"n150", "n151", "n399"} => f.complexity = "Medium"
                         /\ c \in {"n400", "n401"} => f.complexity = "Complex"

\* C30 witness: a scan has analysed a file of 150 non-blank lines and one of
\* 399, each with blank lines, after a scan that stored files of 149 and 400
C30_Witness ==
    /\ pc = "scan_start"
    /\ \E f \in Analysed :
          f.file_hash = Sha256("n150") /\ f.line_count = 150 /\ f.complexity = "Medium"
    /\ \E f \in Analysed :
          f.file_hash = Sha256("n399") /\ f.line_count = 399 /\ f.complexity = "Medium"
    /\ \E f \in Analysed :
          f.file_hash = Sha256("n149") /\ f.line_count = 149 /\ f.complexity = "Simple"
    /\ \E f \in Analysed :
          f.file_hash = Sha256("n400") /\ f.line_count = 400 /\ f.complexity = "Complex"
    /\ Text("n150").blank > 0

\* the fragment is a run of whole directory names of the path
WholeDirMatch(frag, path) ==
    LET segs == Segments(path)
        n == Len(frag)
    IN  \E i \in 1..(Len(segs) - n) : \A k \in 1..n : segs[i + k - 1] = frag[k]

\* the rules of a sub-category: their fragment names a directory and the
\* directory of the parent category
SubCategoryRules == {r \in 1..Len(LayerRules) : Len(LayerRules[r][1]) = 2}

\* the roles of the rules whose fragment is a run of directory names of the path
RolesByDirectory(path) ==
    {LayerRules[r][2] : r \in {q \in 1..Len(LayerRules) :
                                  WholeDirMatch(LayerRules[q][1], path)}}

\* C31: a file in the directory of a sub-category gets the role of the
\* sub-category, and no file gets the role of a category whose fragment is
\* not a run of directory names of its path (it only occurs inside another
\* name).
C31_SubCategoryWins ==
    pc \notin {"import_start", "import_rows"}
       => \A f \in Analysed :
             /\ \A r \in SubCategoryRules :
                   WholeDirMatch(LayerRules[r][1], f.file_path)
                      => f.layer = LayerRules[r][2]
             /\ f.layer # "Unknown" => f.layer \in RolesByDirectory(f.file_path)

\* the number of events of the kind that carry the run id
EventCount(run, kind) ==
    Cardinality({k \in 1..Len(file_history) :
                    /\ file_history[k].scan_run_id = run
                    /\ file_history[k].change_type = kind})

\* the run is finalized
Finalized(run) == scan_runs[run].completed_at # NullInt

\* the counters of a finalized run are the numbers of its events
CountersMatchEvents ==
    \A r \in 1..Len(scan_runs) :
       Finalized(r)
          => /\ scan_runs[r].files_created = EventCount(r, "created")
             /\ scan_runs[r].files_modified = EventCount(r, "modified")
             /\ scan_runs[r].files_deleted = EventCount(r, "deleted")

DeletedEventsOf(i) ==
    {k \in 1..Len(file_history) :
        file_history[k].file_id = i /\ file_history[k].change_type = "deleted"}

\* C33: no step of the pipeline sets is_deleted of a flagged row back to 0
\* or changes its deleted_at, and no file id ever has more than one
\* 'deleted' event.
C33_SoftDeletionMonotonic ==
    /\ [](\A i \in 1..Len(files) :
            /\ Cardinality(DeletedEventsOf(files[i].id)) <= 1
            /\ files[i].is_deleted = 1
                  <=> Cardinality(DeletedEventsOf(files[i].id)) = 1
            /\ files[i].is_deleted = 1 <=> files[i].deleted_at # NullInt)
    /\ [][\A i \in 1..Len(files) :
             files[i].is_deleted = 1
                => /\ files'[i].is_deleted = 1
                   /\ files'[i].deleted_at = files[i].deleted_at]_vars

\* C33 witness: a scan has found the file of a flagged row again and the
\* row is still flagged, with its one 'deleted' event
C33_Witness ==
    /\ pc \in {"scan_upsert", "scan_mark"}
    /\ loc.file_id \in 1..Len(files)
    /\ loc.change_type \in {"modified", "unchanged"}
    /\ files[loc.file_id].is_deleted = 1
    /\ files[loc.file_id].last_scanned > files[loc.file_id].deleted_at
    /\ OnDisk(files[loc.file_id].file_path)
    /\ Cardinality(DeletedEventsOf(loc.file_id)) = 1

\* the 'created' events of the file id
CreatedEventsOf(i) ==
    {k \in EventsOf(i) : file_history[k].change_type = "created"}

\* C34: every row of files has exactly one 'created' event, which is the
\* first event of its id; every 'modified' or 'deleted' event comes after a
\* 'created' event of its file id; every event carries the id of a row of
\* scan_runs.
C34_HistoryWellFormed ==
    /\ \A i \in 1..Len(files) :
          /\ files[i].id = i
          /\ Cardinality(CreatedEventsOf(i)) = 1
          /\ \A c \in CreatedEventsOf(i) : \A k \in EventsOf(i) : c <= k
    /\ \A k \in 1..Len(file_history) :
          /\ file_history[k].file_id \in 1..Len(files)
          /\ file_history[k].change_type \in {"modified", "deleted"}
                => \E c \in 1..(k - 1) :
                      /\ file_history[c].file_id = file_history[k].file_id
                      /\ file_history[c].change_type = "created"
          /\ file_history[k].scan_run_id \in 1..Len(scan_runs)
          /\ scan_runs[file_history[k].scan_run_id].id = file_history[k].scan_run_id

\* C34 witness: a row with a 'created', a 'modified' and a 'deleted' event
\* of three runs, in this order
C34_Witness ==
    \E i \in 1..Len(files) :
       \E c, m, d \in EventsOf(i) :
          /\ c < m /\ m < d
          /\ file_history[c].change_type = "created"
          /\ file_history[m].change_type = "modified"
          /\ file_history[d].change_type = "deleted"
          /\ file_history[c].scan_run_id < file_history[m].scan_run_id
          /\ file_history[m].scan_run_id < file_history[d].scan_run_id

\* the events of the kind a step appends for the file id
AppendedFor(i, kind) ==
    {k \in (Len(file_history) + 1)..Len(file_history') :
        file_history'[k].file_id = i /\ file_history'[k].change_type = kind}

\* the 'created' and 'modified' events of the file id
ContentEventsOf(i) ==
    {k \in EventsOf(i) : file_history[k].change_type \in {"created", "modified"}}

\* a committed state: every row has its 'created' event, holds the
\* fingerprint of its latest 'created' or 'modified' event, and is flagged
\* exactly when it has a 'deleted' event
RecordsMatchEvents ==
    /\ \A i \in 1..Len(files) :
          /\ CreatedEventsOf(i) # {}
          /\ files[i].file_hash = file_history[Latest(ContentEventsOf(i))].file_hash
          /\ files[i].is_deleted = 1 <=> DeletedEventsOf(i) # {}
    /\ \A k \in 1..Len(file_history) : file_history[k].file_id \in 1..Len(files)

\* C35: every step between two committed states, a failing store call
\* included, adds a row together with its one 'created' event, changes a
\* fingerprint together with one 'modified' event of the row, sets a
\* deletion flag together with one 'deleted' event of the row, and appends
\* no other event; so every committed state has the events of its rows.
C35_AtomicRecordAndEvent ==
    /\ []RecordsMatchEvents
    /\ [][/\ Len(files') >= Len(files)
          /\ Len(file_history') >= Len(file_history)
          /\ SubSeq(file_history', 1, Len(file_history)) = file_history
          /\ \A i \in 1..Len(files') :
                /\ Cardinality(AppendedFor(i, "created"))
                      = (IF i > Len(files) THEN 1 ELSE 0)
                /\ Cardinality(AppendedFor(i, "modified"))
                      = (IF i <= Len(files) /\ files'[i].file_hash # files[i].file_hash
                         THEN 1 ELSE 0)
                /\ Cardinality(AppendedFor(i, "deleted"))
                      = (IF i <= Len(files) /\ files'[i].is_deleted # files[i].is_deleted
                         THEN 1 ELSE 0)
          /\ \A k \in (Len(file_history) + 1)..Len(file_history') :
                file_history'[k].file_id \in 1..Len(files')]_vars

\* C35 witness: a scan has reconciled every file of the tree and its
\* mark_deleted_files has failed: the invocation is over, the run is open,
\* and a row whose file is gone has neither the flag nor a 'deleted' event
C35_Witness ==
    /\ pc = "idle"
    /\ scan_runs # << >>
    /\ scan_runs[Len(scan_runs)].completed_at = NullInt
    /\ \A p \in Paths :
          OnDisk(p) => \E i \in 1..Len(files) :
                          /\ files[i].file_path = p
                          /\ files[i].last_scanned > scan_runs[Len(scan_runs)].started_at
    /\ \E p \in Paths : OnDisk(p)
    /\ Cardinality({i \in 1..Len(files) :
                       /\ files[i].is_deleted = 0
                       /\ files[i].file_path \notin {q \in Paths : disk[q] # Absent}
                       /\ DeletedEventsOf(i) = {}}) > 0

====
